---- MODULE Spec2Model ----
(***************************************************************************)
(* The polling control plane of korail-seat-notifier: OrchestratorAgent,   *)
(* MonitorAgent, NotifierAgent and HealthAgent as cooperatively scheduled  *)
(* asyncio tasks around one event bus.                                     *)
(*                                                                         *)
(* One action is one run of a task from the await where it was suspended   *)
(* to the next await that really suspends (queue.put on the unbounded bus  *)
(* and inbox never suspends, so emit() is part of the step that calls it). *)
(*                                                                         *)
(* Time.  Computation takes no time: a runnable task runs before time      *)
(* advances, and a timeout fires exactly when it is due.  The variable     *)
(* timed fixes how time is counted in a behaviour.  timed = TRUE: in       *)
(* seconds, every timer holding the seconds left.  timed = FALSE: durations*)
(* are unknown, a timer is only armed (1) or due (0), and whenever time    *)
(* passes any of the armed timers may become due.                          *)
(***************************************************************************)
EXTENDS Integers, Sequences, FiniteSets

\* ---------------------------------------------------------------- bounds
\* AgentConfig values of the modelled session (models/config.py holds the
\* defaults: 720, 10, 21600 s, 30 s, 300 s, 5 s, 60 s).
max_requests_per_session == 3
max_consecutive_errors == 2
max_session_duration == 2
base_interval == 1
max_interval == 2
jitter_range == 0
notification_cooldown == 2

\* ------------------------------------------------------ program constants
GRACEFUL_SHUTDOWN_TIMEOUT == 10
HEALTH_CHECK_INTERVAL == 60
EVENT_LOOP_TIMEOUT == 1
INBOX_TIMEOUT == 1
RATE_FLOOR == 10
BURST == 1

\* AgentEvent
QUERY_READY == "query.ready"
POLL_START == "poll.start"
POLL_RESULT == "poll.result"
SEAT_DETECTED == "seat.detected"
NOTIFY_REQUEST == "notify.request"
NOTIFY_COMPLETE == "notify.complete"
HEALTH_WARNING == "health.warning"
HEALTH_CRITICAL == "health.critical"
SESSION_STOP == "session.stop"

AgentEvent ==
    { QUERY_READY, POLL_START, POLL_RESULT, SEAT_DETECTED, NOTIFY_REQUEST,
      NOTIFY_COMPLETE, HEALTH_WARNING, HEALTH_CRITICAL, SESSION_STOP }

OrchestratorState == { "IDLE", "RUNNING", "STOPPING", "STOPPED" }

Agents == { "monitor_agent", "notifier_agent", "health_agent" }

AgentLifecycle == { "INIT", "READY", "ACTIVE", "DRAINING", "RECOVERING", "OFF" }

VARIABLES
    timed,                \* scheduling assumption of the behaviour (see above)
    \* OrchestratorAgent
    orchState,            \* _state
    orchPc,               \* position of run(): idle, loop, get, shutdown, force, returned
    orchTimer,            \* seconds left of the wait_for the orchestrator is in
    bus,                  \* _event_bus: sequence of AgentMessage
    metrics,              \* AgentMetrics counters
    peakMem,              \* metrics.peak_memory_mb: 0 (<= 45), 1 (45..50], 2 (> 50)
    \* MonitorAgent
    monPc,                \* none, init, acquire, check, wait, done
    monStop,              \* _stop_event
    monCancel,            \* task.cancel() delivered, CancelledError not yet raised
    monTimer,             \* seconds left of the sleep or timed wait
    request_count,
    consecutive_errors,
    tokens,               \* limiter _tokens, in units of 1/Period token
    sinceRefill,          \* monotonic() - _last_refill, saturating at Period
    sincePoll,            \* seconds since acquire() last returned to the monitor, saturating
                          \* at RATE_FLOOR; -1 before the first return
    \* NotifierAgent
    notPc,                \* none, init, get, sending, done
    notStop,
    notCancel,
    notTimer,
    inbox,                \* _inbox: sequence of CheckResult
    sending,              \* the send() awaited: its CheckResult, what its channels do
    notifications_sent,
    everNotified,         \* _last_notification_time > 0
    unseated,             \* _handle_notification has dropped a result without available trains
    sinceNotif,           \* monotonic() - _last_notification_time, saturating
    sinceHandle,          \* monotonic() - now of the notification being sent
    \* HealthAgent
    hlPc,                 \* none, init, wait, done
    hlStop,
    hlTimer,
    \* history of the session
    emitted,              \* emitted[e]: how many messages of event e were put on the bus
                          \* (warnings, which nothing acts on, are not counted)
    succeeded,            \* how many check() calls returned a CheckResult
    detected,             \* how many of them had seats_available
    limitHit,             \* _check_limits() was False, or consecutive errors reached the cap
    critAfterErrors,      \* HEALTH_CRITICAL {consecutive_errors} was emitted
    elapsed,              \* monotonic() - _start_time of the monitor and of the health
                          \* agent (both set up when run() starts), saturating above
                          \* max_session_duration
    sinceStop,            \* seconds since the external stop() took effect, -1 before
    \* BaseAgent.start of each agent
    failed,               \* the agents whose run() raised an Exception
    lifecycle,            \* lifecycle[a]: _lifecycle of agent a
    startPc,              \* startPc[a]: position of start(): created, setup, ready, run,
                          \* except, teardown, ended
    \* inputs of the operations checked on their own
    query,                \* the TrainQuery handed to run()
    poller,               \* a PollerSkill: its constructor arguments, _current_interval,
                          \* what next_interval returned and the calls made so far
    call,                 \* a call of a module-level function: its arguments and result
    checker,              \* SeatCheckerSkill.check(query) in progress
    korail,               \* a KorailAgent (the single-agent variant)
    limiter,              \* a TokenBucketRateLimiter, the acquire() calls in progress
                          \* and the ages of the tokens granted lately
    send                  \* a NotifierSkill and its send(result) call: _methods,
                          \* whether result has available trains, the channel
                          \* tasks, the position of send()

orchVars == << orchState, orchPc, orchTimer >>
monFlags == << monStop, monCancel >>
monVars == << monPc, monTimer, request_count, consecutive_errors, tokens, sinceRefill, sincePoll >>
notFlags == << notStop, notCancel >>
notVars == << notPc, notTimer, sending, notifications_sent, everNotified, unseated, sinceNotif, sinceHandle >>
hlFlags == << hlStop >>
hlVars == << hlPc, hlTimer >>
clocks == << elapsed, sinceStop >>
history == << succeeded, detected, limitHit, critAfterErrors >>
startVars == << failed, lifecycle, startPc >>
fnVars == << call, checker, korail >>
unitVars == << query, send, poller, limiter, fnVars >>

vars ==
    << timed, startVars, unitVars, orchVars, bus, metrics, peakMem, monFlags, monVars, notFlags, notVars,
       inbox, hlFlags, hlVars, clocks, emitted, history >>

\* ---------------------------------------------------------------- helpers
Min(a, b) == IF a < b THEN a ELSE b
Max(a, b) == IF a > b THEN a ELSE b
Dec(t) == IF t > 0 THEN t - 1 ELSE 0

\* A timeout of d seconds armed now / a timeout armed earlier that is due /
\* the values a timer may take when time passes.
SetTimer(d) == IF timed THEN d ELSE 1
Expired(t) == t = 0
Elapse(t) == IF timed THEN { Dec(t) } ELSE { 0, t }

\* AgentMessage(event, source, target = "orchestrator", payload).  The payload
\* is flattened to the fields the program reads: reason (of a health event),
\* n (request_count, result serial, notification_number), seats
\* (result.seats_available), slow (elapsed_ms > 10000), isResult (payload is
\* a CheckResult, not a dict).
AgentMessage(event, source, payload) ==
    [ event |-> event, source |-> source, payload |-> payload ]

Payload(reason, n, seats, slow, isResult) ==
    [ reason |-> reason, n |-> n, seats |-> seats, slow |-> slow, isResult |-> isResult ]

\* CheckResult of the k-th poll
CheckResult(k, seats) == [ id |-> k, seats |-> seats ]

\* BaseAgent.emit on a bus value b
Emit(b, event, source, payload) == Append(b, AgentMessage(event, source, payload))

\* the emitted-history after the messages of b2 that b1 does not hold yet
Count(seq, e) == Cardinality({ i \in 1..Len(seq) : seq[i].event = e })
Emitted(old, new) ==
    LET added == SubSeq(new, Len(old) + 1, Len(new))
    IN  [ e \in AgentEvent |->
            IF e = HEALTH_WARNING THEN 0 ELSE emitted[e] + Count(added, e) ]

NoPayload == Payload("", 0, FALSE, FALSE, FALSE)

\* --------------------------------------------------- TrainQuery, validation
\* TrainQuery, reduced to the fields validation looks at; the date is counted
\* in days from today
TrainQuery(dep, arr, day) ==
    [ departure_station |-> dep, arrival_station |-> arr, departure_date |-> day ]

\* A station name is a sequence of pieces of text: the words of the names of
\* the tables ("yeok" is the suffix 역), a space " " and a tab "\t".
\* STATION_CODES: its keys
STATION_CODES ==
    { << "Seoul" >>, << "Yongsan" >>, << "Yeongdeungpo" >>, << "Gwangmyeong" >>, << "Suwon" >>,
      << "Cheonan", "Asan" >>, << "Osong" >>, << "Daejeon" >>, << "Gimcheon", "Gumi" >>,
      << "Dongdaegu" >>, << "Gyeongju" >>, << "Pohang" >>, << "Ulsan", "(", "Tongdosa", ")" >>,
      << "Busan" >>, << "Gwangju", "Songjeong" >>, << "Mokpo" >>, << "Jeonju" >>, << "Iksan" >>,
      << "Yeosu", "Expo" >>, << "Gangneung" >>, << "Pyeongchang" >>, << "Jinju" >> }

\* STATION_ALIASES: its items << alias, name >>
STATION_ALIASES ==
    { << << "Seoul", "yeok" >>, << "Seoul" >> >>,
      << << "Yongsan", "yeok" >>, << "Yongsan" >> >>,
      << << "Busan", "yeok" >>, << "Busan" >> >>,
      << << "Daejeon", "yeok" >>, << "Daejeon" >> >>,
      << << "Dongdaegu", "yeok" >>, << "Dongdaegu" >> >>,
      << << "Ulsan" >>, << "Ulsan", "(", "Tongdosa", ")" >> >>,
      << << "Ulsan", "yeok" >>, << "Ulsan", "(", "Tongdosa", ")" >> >>,
      << << "Tongdosa" >>, << "Ulsan", "(", "Tongdosa", ")" >> >>,
      << << "Gwangju" >>, << "Gwangju", "Songjeong" >> >>,
      << << "Yeosu" >>, << "Yeosu", "Expo" >> >>,
      << << "Gimcheon" >>, << "Gimcheon", "Gumi" >> >>,
      << << "Gumi" >>, << "Gimcheon", "Gumi" >> >>,
      << << "Cheonan" >>, << "Cheonan", "Asan" >> >>,
      << << "Asan" >>, << "Cheonan", "Asan" >> >> }

\* the keys of STATION_ALIASES
AliasKeys == { item[1] : item \in STATION_ALIASES }

IsWhitespace(c) == c \in { " ", "\t" }
NotSpace(c) == c # " "

\* name.strip()
RECURSIVE strip(_)
strip(name) ==
    IF name = << >> THEN name
    ELSE IF IsWhitespace(Head(name)) THEN strip(Tail(name))
    ELSE IF IsWhitespace(name[Len(name)]) THEN strip(SubSeq(name, 1, Len(name) - 1))
    ELSE name

\* name.strip().replace(" ", "")
Normalized(name) == SelectSeq(strip(name), NotSpace)

\* faulty variant of validate_station: the aliases are not converted
validate_station_without_aliases(name) ==
    IF Normalized(name) \in STATION_CODES THEN Normalized(name) ELSE << >>
MAX_FUTURE_DAYS == 90


\* validate_station: the normalized name, << >> standing for the ValueError
\* (no key of STATION_CODES is empty)
validate_station(name) ==
    LET stripped == Normalized(name)
        normalized == IF stripped \in AliasKeys
                      THEN (CHOOSE item \in STATION_ALIASES : item[1] = stripped)[2]
                      ELSE stripped
    IN  IF normalized \in STATION_CODES THEN normalized ELSE << >>

\* ValidationSkill.validate_query accepts the stations and the date of q
ValidQuery(q) ==
    LET dep == validate_station(q.departure_station)
        arr == validate_station(q.arrival_station)
    IN  /\ dep # << >>
        /\ arr # << >>
        /\ dep # arr
        /\ q.departure_date >= 0
        /\ q.departure_date <= MAX_FUTURE_DAYS

\* ------------------------------------------------------------ NotifierSkill
\* no NotifierSkill.send call is looked at
NoSend == [ methods |-> << >>, available |-> FALSE, tasks |-> << >>, pc |-> "none" ]

\* -------------------------------------------------------------- PollerSkill
\* how many next_interval calls are followed
MaxCalls == 5

\* Intervals are exact fractions of a second: the value v stands for v / Scale
\* seconds, so that the divisions by 2 (backoff 1.5) and by 6 (1 / 1.2 = 5 / 6)
\* of MaxCalls + 1 calls leave no remainder.
Scale == 6 ^ (MaxCalls + 1)

\* no PollerSkill is looked at
NoPoller ==
    [ base |-> 0, max |-> 0, jitter |-> 0, current |-> 0, returned |-> 0, errRun |-> 0,
      runStart |-> 0, calls |-> 0 ]

\* PollerSkill.__init__(base_interval, max_interval, 1.5, jitter_range);
\* errRun counts the next_interval(True) calls since the last
\* next_interval(False), runStart is _current_interval before the first of them
PollerSkill(base, max, jitter) ==
    [ base |-> base * Scale, max |-> max * Scale, jitter |-> jitter * Scale,
      current |-> base * Scale, returned |-> 0, errRun |-> 0, runStart |-> base * Scale,
      calls |-> 0 ]

\* faulty variant of the update: the backoff is not capped
current_interval_uncapped(p, had_error) ==
    IF had_error
    THEN (p.current * 3) \div 2
    ELSE Max((p.current * 5) \div 6, p.base)

\* faulty variant of the update: the recovery is not floored at the base
current_interval_unfloored(p, had_error) ==
    IF had_error
    THEN Min((p.current * 3) \div 2, p.max)
    ELSE (p.current * 5) \div 6

\* the assignment to _current_interval of next_interval(had_error), with
\* backoff_multiplier = 1.5
current_interval(p, had_error) ==
    IF had_error
    THEN Min((p.current * 3) \div 2, p.max)
    ELSE Max((p.current * 5) \div 6, p.base)

\* PollerSkill.next_interval(had_error) with random.uniform giving j
next_interval(p, had_error, j) ==
    LET c == current_interval(p, had_error)
    IN  [ p EXCEPT !.current = c,
                   !.returned = c + j,
                   !.errRun = IF had_error THEN p.errRun + 1 ELSE 0,
                   !.runStart = IF had_error THEN p.runStart ELSE c,
                   !.calls = p.calls + 1 ]

\* ------------------------------------------------------- SeatCheckerSkill
\* how many words a display name holds / how many bytes a page holds at most
MaxName == 2
MaxPageSize == 2

MAX_PAGES == 5

\* no function is called
NoCall == [ fn |-> "none", args |-> << >>, pc |-> "none", result |-> 0 ]

\* f(args) is called
Called(fn, args) == [ fn |-> fn, args |-> args, pc |-> "called", result |-> 0 ]

\* no check() runs
NoChecker ==
    [ pc |-> "none", pages |-> << >>, params |-> "", total_size |-> 0, all_trains |-> << >> ]

_RSV_CODE_AVAILABLE == { "11", "13" }

\* A display name (h_gen_rsv_nm, h_spe_rsv_nm) is a sequence of words, each a
\* run of characters: "maejin" 매진, "daegi" 대기, "magam" 마감, "eopseum" 없음,
\* "manheum" 많음, "chungbun" 충분, "ganeung" 가능, "seok" 석, and the digits.
DigitChars == { "0", "3", "5" }
NameWords ==
    { "maejin", "daegi", "magam", "eopseum", "manheum", "chungbun", "ganeung", "seok" }
        \cup DigitChars

\* w in name
Contains(name, w) == \E i \in 1..Len(name) : name[i] = w

\* c.isdigit()
isdigit(c) == c \in DigitChars

DigitValue(c) == CASE c = "0" -> 0 [] c = "3" -> 3 [] c = "5" -> 5

\* int(digits) of a string of decimal digits
RECURSIVE int(_)
int(digits) ==
    IF digits = << >> THEN 0
    ELSE 10 * int(SubSeq(digits, 1, Len(digits) - 1)) + DigitValue(digits[Len(digits)])

\* _seat_count_from_code(code, name)
seat_count_from_code(code, name) ==
    IF code \in _RSV_CODE_AVAILABLE
    THEN IF Contains(name, "manheum") \/ Contains(name, "chungbun") \/ Contains(name, "ganeung")
         THEN 99
         ELSE LET digits == SelectSeq(name, isdigit)
              IN  IF digits # << >> THEN int(digits) ELSE 1
    ELSE 0

\* a train of a page: the k-th of page p, departing within the time window
\* of the query or not
Train(p, k, inWindow) == [ page |-> p, no |-> k, inWindow |-> inWindow ]

InWindow(t) == t.inWindow

\* _parse_response(data, query): the trains of the page that depart within
\* [preferred_time_start, preferred_time_end]
parse_response(data) == SelectSeq(data.trn_info, InWindow)

\* faulty variant: one more page than MAX_PAGES is asked for
another_page_off_by_one(fetched, data) == data.h_next_pg_flg = "Y" /\ fetched <= MAX_PAGES

\* after `fetched` pages, the loop of check() goes on to another request:
\* the last page said h_next_pg_flg = "Y" and range(MAX_PAGES) is not exhausted
another_page(fetched, data) == data.h_next_pg_flg = "Y" /\ fetched < MAX_PAGES

\* check() is resumed with the answer to its request: raise_for_status() or
\* json.loads raises, strResult is "FAIL", or the page is read and the loop
\* goes on or ends
page_received(c, data) ==
    LET pages == Append(c.pages, data)
    IN  IF data.kind = "error"
        THEN [ c EXCEPT !.pc = "raised", !.pages = pages ]
        ELSE IF data.strResult = "FAIL"
        THEN [ c EXCEPT !.pc = "raised", !.pages = pages,
                        !.total_size = c.total_size + data.size ]
        ELSE [ c EXCEPT !.pc = IF another_page(Len(pages), data) THEN "get" ELSE "returned",
                        !.pages = pages,
                        !.params = IF another_page(Len(pages), data)
                                   THEN data.h_trn_no_next ELSE c.params,
                        !.total_size = c.total_size + data.size,
                        !.all_trains = c.all_trains \o parse_response(data) ]

MINUTES_PER_DAY == 1440

\* datetime.time(hour, minute)
Time(hour, minute) == [ hour |-> hour, minute |-> minute ]

\* faulty variant of _calc_duration: the day is added for diff < 0 only
calc_duration_strict(dep, arr) ==
    LET diff == (arr.hour * 60 + arr.minute) - (dep.hour * 60 + dep.minute)
    IN  IF diff < 0 THEN diff + MINUTES_PER_DAY ELSE diff

\* _calc_duration(dep, arr)
calc_duration(dep, arr) ==
    LET dep_min == dep.hour * 60 + dep.minute
        arr_min == arr.hour * 60 + arr.minute
        diff == arr_min - dep_min
    IN  IF diff <= 0 THEN diff + MINUTES_PER_DAY ELSE diff

\* ------------------------------------------------------------- KorailAgent
AgentState == { "IDLE", "MONITORING", "DETECTED", "NOTIFIED", "STOPPED", "ERROR" }

_VALID_TRANSITIONS ==
    [ current \in AgentState |->
        CASE current = "IDLE" -> { "MONITORING", "STOPPED" }
          [] current = "MONITORING" -> { "DETECTED", "ERROR", "STOPPED" }
          [] current = "DETECTED" -> { "NOTIFIED", "MONITORING", "STOPPED" }
          [] current = "NOTIFIED" -> { "MONITORING", "STOPPED" }
          [] current = "ERROR" -> { "MONITORING", "STOPPED" }
          [] current = "STOPPED" -> { } ]

validate_transition(current, target) == target \in _VALID_TRANSITIONS[current]

\* no KorailAgent is looked at
NoKorailAgent ==
    [ state |-> "IDLE", assigned |-> << >>, pc |-> "none", running |-> FALSE,
      request_count |-> 0, error_count |-> 0 ]

\* KorailAgent(config); `assigned` holds the values given to _state in the
\* step taken last, after the value it had
KorailAgent == [ NoKorailAgent EXCEPT !.pc = "created" ]

\* faulty variant of _transition: the table is not consulted
transition_unchecked(a, new_state) ==
    [ a EXCEPT !.state = new_state, !.assigned = Append(a.assigned, new_state) ]

\* _transition(new_state) of agent a
transition(a, new_state) ==
    IF ~validate_transition(a.state, new_state) THEN a
    ELSE [ a EXCEPT !.state = new_state, !.assigned = Append(a.assigned, new_state) ]

\* the agent at the start of a step
Stepping(a) == [ a EXCEPT !.assigned = << a.state >> ]

\* start() from the test of its while loop to the next await; timeout: the
\* session has lasted longer than max_session_duration
korail_loop(a, timeout) ==
    IF /\ a.running
       /\ ~timeout
       /\ a.request_count < max_requests_per_session
       /\ a.error_count < max_consecutive_errors
    THEN [ a EXCEPT !.pc = "check" ]
    ELSE [ transition(a, "STOPPED") EXCEPT !.pc = "ended" ]

\* _poll_once and the loop body after it, up to asyncio.sleep(interval)
korail_polled(a, had_error) ==
    [ a EXCEPT !.request_count = a.request_count + 1,
               !.error_count = IF had_error THEN a.error_count ELSE 0,
               !.pc = "sleep" ]

\* none of the functions and objects above is in use
FnIdle == call = NoCall /\ checker = NoChecker /\ korail = NoKorailAgent

\* --------------------------------------------------- TokenBucketRateLimiter
\* how many acquire() calls run at the same time / the longest window looked at
MaxCallers == 2
Horizon == 4

Callers == 1..MaxCallers

\* no TokenBucketRateLimiter is looked at
NoLimiter ==
    [ period |-> 0, burst |-> 0, tokens |-> 0, sinceRefill |-> 0, grants |-> << >>,
      sleep |-> [ i \in Callers |-> -1 ] ]

\* TokenBucketRateLimiter(rate = 1 / period, burst).  One token is `period`
\* units of tokens, so that one second refills one unit; sinceRefill is
\* monotonic() - _last_refill, saturating where the bucket is full anyway;
\* grants holds the seconds since each acquire() that returned within the last
\* Horizon seconds, newest first; sleep[i] is what is left of the sleep of
\* caller i, -1 when it is not in acquire().
TokenBucketRateLimiter(period, burst) ==
    [ period |-> period, burst |-> burst, tokens |-> burst * period, sinceRefill |-> 0,
      grants |-> << >>, sleep |-> [ i \in Callers |-> -1 ] ]

\* faulty variant of _refill: the bucket is not capped at burst
refill_uncapped(l) == l.tokens + l.sinceRefill

\* _refill: the tokens after it
refill(l) == Min(l.burst * l.period, l.tokens + l.sinceRefill)

\* one iteration of the loop of acquire() run by caller i: the token is
\* taken and acquire() returns, or the caller sleeps deficit / rate seconds
acquire(l, i) ==
    LET t == refill(l)
    IN  IF t >= l.period
        THEN [ l EXCEPT !.tokens = t - l.period, !.sinceRefill = 0,
                        !.grants = << 0 >> \o l.grants, !.sleep[i] = -1 ]
        ELSE [ l EXCEPT !.tokens = t, !.sinceRefill = 0, !.sleep[i] = l.period - t ]

IsRecent(age) == age <= Horizon

\* one second passes
LimiterSecond(l) ==
    [ l EXCEPT !.sinceRefill = Min(l.sinceRefill + 1, l.burst * l.period),
               !.grants = SelectSeq([ k \in 1..Len(l.grants) |-> l.grants[k] + 1 ], IsRecent),
               !.sleep = [ i \in Callers |-> IF l.sleep[i] > 0 THEN l.sleep[i] - 1
                                             ELSE l.sleep[i] ] ]

\* ------------------------------------------------------------ MonitorAgent
\* TokenBucketRateLimiter(rate = 1 / max(base_interval, 10.0), burst = 1):
\* one token is Period units of `tokens`, one second refills one unit.
\* faulty variant: rate = 1 / base_interval, without the floor of 10 seconds
PeriodWithoutFloor == base_interval

Period == Max(base_interval, RATE_FLOOR)

\* seconds elapsed since _last_refill when _refill runs; `slept` is what the
\* caller is known to have slept since
RefillElapsed(slept) == IF timed THEN { sinceRefill } ELSE { slept, Period }

\* TokenBucketRateLimiter._refill
Refilled(e) == Min(BURST * Period, tokens + e)

\* faulty variant of _check_limits: the request cap compared with > instead of >=
CheckLimitsOffByOne ==
    IF elapsed > max_session_duration THEN FALSE
    ELSE IF request_count > max_requests_per_session THEN FALSE
    ELSE TRUE

\* MonitorAgent._check_limits: False when a session limit is exceeded
CheckLimits ==
    IF elapsed > max_session_duration THEN FALSE
    ELSE IF request_count >= max_requests_per_session THEN FALSE
    ELSE TRUE

\* PollerSkill.next_interval: current_interval stays within
\* [base_interval, max_interval] and the jitter within [0, jitter_range]
NextInterval(had_error) ==
    { c + j : c \in base_interval..max_interval, j \in 0..jitter_range }

\* faulty variant: POLL_START carries request_count
PollStartCountsDone(b) ==
    Emit(b, POLL_START, "monitor_agent", Payload("", request_count, FALSE, FALSE, FALSE))

\* _poll_once up to the await of check(): POLL_START {request_count + 1}
PollStart(b) ==
    Emit(b, POLL_START, "monitor_agent", Payload("", request_count + 1, FALSE, FALSE, FALSE))

\* faulty variant of the try branch: SEAT_DETECTED emitted whatever
\* result.seats_available is
PollSucceededAlwaysDetects(b, result, slow) ==
    Emit(Emit(b, POLL_RESULT, "monitor_agent",
              Payload("", request_count + 1, result.seats, slow, FALSE)),
         SEAT_DETECTED, "monitor_agent", Payload("", result.id, result.seats, FALSE, TRUE))

\* faulty variant of the try branch: SEAT_DETECTED emitted before POLL_RESULT
PollSucceededDetectsFirst(b, result, slow) ==
    LET b1 == IF result.seats
              THEN Emit(b, SEAT_DETECTED, "monitor_agent",
                        Payload("", result.id, result.seats, FALSE, TRUE))
              ELSE b
    IN  Emit(b1, POLL_RESULT, "monitor_agent",
             Payload("", request_count + 1, result.seats, slow, FALSE))

\* _poll_once after check() returned `result` (try branch): the messages emitted
PollSucceeded(b, result, slow) ==
    LET b1 == Emit(b, POLL_RESULT, "monitor_agent",
                   Payload("", request_count + 1, result.seats, slow, FALSE))
    IN  IF result.seats
        THEN Emit(b1, SEAT_DETECTED, "monitor_agent",
                  Payload("", result.id, result.seats, FALSE, TRUE))
        ELSE b1

\* faulty variant of the except branch: the failed poll is reported with a
\* POLL_RESULT as well
PollFailedReported(b, errors) ==
    LET b1 == Emit(b, POLL_RESULT, "monitor_agent",
                   Payload("", request_count + 1, FALSE, FALSE, FALSE))
    IN  IF errors >= max_consecutive_errors
        THEN Emit(b1, HEALTH_CRITICAL, "monitor_agent",
                  Payload("consecutive_errors", errors, FALSE, FALSE, FALSE))
        ELSE b1

\* faulty variant of the except branch: HEALTH_CRITICAL one error early
PollFailedOneEarly(b, errors) ==
    IF errors + 1 >= max_consecutive_errors
    THEN Emit(b, HEALTH_CRITICAL, "monitor_agent",
              Payload("consecutive_errors", errors, FALSE, FALSE, FALSE))
    ELSE b

\* _poll_once after check() raised (except branch), errors = consecutive_errors + 1
PollFailed(b, errors) ==
    IF errors >= max_consecutive_errors
    THEN Emit(b, HEALTH_CRITICAL, "monitor_agent",
              Payload("consecutive_errors", errors, FALSE, FALSE, FALSE))
    ELSE b

\* TokenBucketRateLimiter.acquire with e seconds since the last refill, and,
\* when a token was there, _poll_once up to the await of check()
Acquire(e) ==
    LET t == Refilled(e)
    IN  /\ sinceRefill' = 0
        /\ sincePoll' = IF t >= Period THEN 0 ELSE sincePoll
        /\ limitHit' = limitHit
        /\ IF t >= Period
           THEN /\ tokens' = t - Period
                /\ bus' = PollStart(bus)
                /\ emitted' = Emitted(bus, bus')
                /\ monPc' = "check"
                /\ monTimer' = 0
           ELSE /\ tokens' = t
                /\ monPc' = "acquire"
                /\ monTimer' = SetTimer(Period - t)
                /\ UNCHANGED << bus, emitted >>

\* MonitorAgent.run from the top of the while loop to the next suspension;
\* leaving the loop runs teardown() and ends the task
MonLoopTop ==
    IF monStop
    THEN /\ monPc' = "done"
         /\ monTimer' = 0
         /\ UNCHANGED << bus, emitted, tokens, sinceRefill, sincePoll, limitHit >>
    ELSE IF ~CheckLimits
    THEN /\ bus' = Emit(bus, HEALTH_CRITICAL, "monitor_agent",
                        Payload("session_limit_reached", request_count, FALSE, FALSE, FALSE))
         /\ emitted' = Emitted(bus, bus')
         /\ limitHit' = TRUE
         /\ monPc' = "done"
         /\ monTimer' = 0
         /\ UNCHANGED << tokens, sinceRefill, sincePoll >>
    ELSE \E e \in RefillElapsed(0) : Acquire(e)

monRest ==
    << timed, startVars, unitVars, orchVars, metrics, peakMem, monFlags, notFlags, notVars, inbox,
       hlFlags, hlVars, clocks >>

\* BaseAgent.start of the monitor task: setup(), then run()
MonStart ==
    /\ monPc = "init"
    /\ ~monCancel
    /\ MonLoopTop
    /\ UNCHANGED << monRest, request_count, consecutive_errors, succeeded, detected,
                    critAfterErrors >>

\* asyncio.sleep(sleep_time) of acquire() is over
MonAcquireWake ==
    /\ monPc = "acquire"
    /\ ~monCancel
    /\ Expired(monTimer)
    /\ \E e \in RefillElapsed(Period - tokens) : Acquire(e)
    /\ UNCHANGED << monRest, request_count, consecutive_errors, succeeded, detected,
                    critAfterErrors >>

\* check() returns a CheckResult or raises; the rest of _poll_once, then
\* next_interval and the wait for the stop event
MonCheckReturn ==
    /\ monPc = "check"
    /\ ~monCancel
    /\ \E outcome \in { "seats", "noseats", "raise" }, slow \in BOOLEAN :
        LET result == CheckResult(request_count + 1, outcome = "seats")
            had_error == outcome = "raise"
        IN  /\ succeeded' = IF had_error THEN succeeded ELSE succeeded + 1
            /\ detected' = IF outcome = "seats" THEN detected + 1 ELSE detected
            /\ request_count' = request_count + 1
            /\ IF had_error
               THEN /\ ~slow
                    /\ consecutive_errors' = consecutive_errors + 1
                    /\ bus' = PollFailed(bus, consecutive_errors')
                    /\ limitHit' = (limitHit \/ consecutive_errors' >= max_consecutive_errors)
                    /\ critAfterErrors' =
                           (critAfterErrors \/ consecutive_errors' >= max_consecutive_errors)
               ELSE /\ consecutive_errors' = 0
                    /\ bus' = PollSucceeded(bus, result, slow)
                    /\ UNCHANGED << limitHit, critAfterErrors >>
            /\ emitted' = Emitted(bus, bus')
            /\ \E interval \in NextInterval(had_error) : monTimer' = SetTimer(interval)
            /\ monPc' = "wait"
    /\ UNCHANGED << monRest, tokens, sinceRefill, sincePoll >>

\* the inter-poll wait ends because the stop event is set: break
MonWaitStop ==
    /\ monPc = "wait"
    /\ ~monCancel
    /\ monStop
    /\ monPc' = "done"
    /\ monTimer' = 0
    /\ UNCHANGED << monRest, request_count, consecutive_errors, tokens, sinceRefill, sincePoll,
                    bus, emitted, history >>

\* the inter-poll wait times out: next iteration of the loop
MonWaitTimeout ==
    /\ monPc = "wait"
    /\ ~monCancel
    /\ Expired(monTimer)
    /\ MonLoopTop
    /\ UNCHANGED << monRest, request_count, consecutive_errors, succeeded, detected,
                    critAfterErrors >>

\* CancelledError raised at the await the monitor is suspended in: it is no
\* Exception, so it leaves _poll_once and run(); start() runs teardown()
MonCancelled ==
    /\ monCancel
    /\ monPc \in { "init", "acquire", "check", "wait" }
    /\ monPc' = "done"
    /\ monTimer' = 0
    /\ monCancel' = FALSE
    /\ UNCHANGED << timed, startVars, unitVars, orchVars, metrics, peakMem, monStop, notFlags, notVars, inbox,
                    hlFlags, hlVars, clocks, request_count, consecutive_errors, tokens,
                    sinceRefill, sincePoll, bus, emitted, history >>

MonRunnable ==
    \/ monPc = "init"
    \/ monCancel /\ monPc \in { "acquire", "check", "wait" }
    \/ monPc = "acquire" /\ Expired(monTimer)
    \/ monPc = "wait" /\ (monStop \/ Expired(monTimer))

\* ----------------------------------------------------------- NotifierAgent
NoResult == CheckResult(0, FALSE)

\* NotifierSkill.send(result) in progress; delivered: at least one enabled
\* channel delivers the notification (send() returns None either way)
Sending(result, delivered) == [ result |-> result, delivered |-> delivered ]
NotSending == Sending(NoResult, FALSE)

\* faulty variant of notify(): the result is put at the front of the inbox
NotifyFront(q, result) == << result >> \o q

\* NotifierAgent.notify(result): the inbox after the put
Notify(q, result) == Append(q, result)

\* faulty variant of the cooldown test: time_since_last <= cooldown
InCooldownInclusive ==
    IF timed THEN { sinceNotif <= notification_cooldown } ELSE BOOLEAN

\* time_since_last < cooldown, as far as the scheduling assumption decides it
InCooldown == IF timed THEN { sinceNotif < notification_cooldown } ELSE BOOLEAN

\* NotifierAgent.run from the top of the while loop to the await of inbox.get()
NotLoopTop ==
    IF notStop
    THEN notPc' = "done" /\ notTimer' = 0
    ELSE notPc' = "get" /\ notTimer' = SetTimer(INBOX_TIMEOUT)

notRest ==
    << timed, startVars, unitVars, orchVars, metrics, peakMem, monFlags, monVars, notFlags, hlFlags, hlVars,
       clocks, history >>

NotStart ==
    /\ notPc = "init"
    /\ ~notCancel
    /\ NotLoopTop
    /\ UNCHANGED << notRest, inbox, sending, notifications_sent, everNotified, unseated, sinceNotif,
                    sinceHandle, bus, emitted >>

\* wait_for(inbox.get(), 1.0) raised TimeoutError: continue
NotGetTimeout ==
    /\ notPc = "get"
    /\ ~notCancel
    /\ Expired(notTimer)
    /\ NotLoopTop
    /\ UNCHANGED << notRest, inbox, sending, notifications_sent, everNotified, unseated, sinceNotif,
                    sinceHandle, bus, emitted >>

\* faulty variant of _handle_notification: available_trains is not looked at
HandledWithoutSeatTest(result, cooling) ==
    IF everNotified /\ cooling THEN "cooldown" ELSE "send"

\* _handle_notification(result): the way it takes, return within the
\* cooldown, return for want of available trains, or send()
Handled(result, cooling) ==
    IF everNotified /\ cooling THEN "cooldown"
    ELSE IF ~result.seats THEN "no_seats"
    ELSE "send"

\* inbox.get() returned `result`: _handle_notification up to the await of send()
NotGetItem ==
    /\ notPc = "get"
    /\ ~notCancel
    /\ inbox # << >>
    /\ inbox' = Tail(inbox)
    /\ \E cooling \in InCooldown :
        LET result == Head(inbox)
            branch == Handled(result, cooling)
        IN  IF branch # "send"
            THEN /\ NotLoopTop
                 /\ unseated' = (unseated \/ branch = "no_seats")
                 /\ UNCHANGED << sending, sinceHandle >>
            ELSE /\ notPc' = "sending"
                 /\ notTimer' = 0
                 /\ \E delivered \in BOOLEAN : sending' = Sending(result, delivered)
                 /\ sinceHandle' = 0
                 /\ unseated' = unseated
    /\ UNCHANGED << notRest, notifications_sent, everNotified, sinceNotif, bus, emitted >>

\* send() returned: the notification is counted and NOTIFY_COMPLETE emitted
NotSendDone ==
    /\ notPc = "sending"
    /\ ~notCancel
    /\ everNotified' = TRUE
    /\ sinceNotif' = sinceHandle
    /\ sinceHandle' = 0
    /\ notifications_sent' = notifications_sent + 1
    /\ sending' = NotSending
    /\ bus' = Emit(bus, NOTIFY_COMPLETE, "notifier_agent",
                   Payload("", notifications_sent', FALSE, FALSE, FALSE))
    /\ emitted' = Emitted(bus, bus')
    /\ NotLoopTop
    /\ UNCHANGED << notRest, inbox, unseated >>

\* CancelledError at inbox.get() or inside send(): run() breaks out of its loop
NotCancelled ==
    /\ notCancel
    /\ notPc \in { "init", "get", "sending" }
    /\ notPc' = "done"
    /\ notTimer' = 0
    /\ notCancel' = FALSE
    /\ sending' = NotSending
    /\ sinceHandle' = 0
    /\ UNCHANGED << timed, startVars, unitVars, orchVars, metrics, peakMem, monFlags, monVars, notStop, hlFlags,
                    hlVars, clocks, history, inbox, notifications_sent, everNotified, unseated,
                    sinceNotif, bus, emitted >>

NotRunnable ==
    \/ notPc = "init"
    \/ notCancel /\ notPc \in { "get", "sending" }
    \/ notPc = "get" /\ (inbox # << >> \/ Expired(notTimer))

\* ------------------------------------------------------------- HealthAgent
\* the memory samples update_memory() can leave in peak_memory_mb
MemSamples == { m \in 0..2 : m >= peakMem }

\* HealthAgent.run from the top of the while loop to the timed wait
HlLoopTop ==
    IF hlStop
    THEN hlPc' = "done" /\ hlTimer' = 0
    ELSE hlPc' = "wait" /\ hlTimer' = SetTimer(HEALTH_CHECK_INTERVAL)

\* HealthAgent._check_health with memory sample m: the messages emitted
CheckHealth(b, m) ==
    IF elapsed > max_session_duration
    THEN Emit(b, HEALTH_CRITICAL, "health_agent",
              Payload("session_timeout", 0, FALSE, FALSE, FALSE))
    ELSE IF m > 1
    THEN Emit(b, HEALTH_CRITICAL, "health_agent",
              Payload("memory_limit", 0, FALSE, FALSE, FALSE))
    ELSE b

hlRest ==
    << timed, startVars, unitVars, orchVars, metrics, monFlags, monVars, notFlags, notVars, inbox, hlFlags,
       clocks, history >>

HlStart ==
    /\ hlPc = "init"
    /\ HlLoopTop
    /\ UNCHANGED << hlRest, peakMem, bus, emitted >>

\* the wait ends because the stop event is set: break
HlWaitStop ==
    /\ hlPc = "wait"
    /\ hlStop
    /\ hlPc' = "done"
    /\ hlTimer' = 0
    /\ UNCHANGED << hlRest, peakMem, bus, emitted >>

\* the wait timed out: _check_health, next iteration
HlTick ==
    /\ hlPc = "wait"
    /\ Expired(hlTimer)
    /\ \E m \in MemSamples :
        /\ peakMem' = m
        /\ bus' = CheckHealth(bus, m)
    /\ emitted' = Emitted(bus, bus')
    /\ HlLoopTop
    /\ UNCHANGED hlRest

HlRunnable ==
    \/ hlPc = "init"
    \/ hlPc = "wait" /\ (hlStop \/ Expired(hlTimer))

\* ------------------------------------------------------- OrchestratorAgent
AllDone == monPc = "done" /\ notPc = "done" /\ hlPc = "done"

\* faulty variant of stop(): the state changes but request_stop() is not called
StopWithoutSignals(st) == FALSE

\* faulty variant of stop(): the state is set whatever it was
StopStateUnguarded(st) == "STOPPING"

\* OrchestratorAgent.stop as a function of the orchestrator state `st`:
\* the state it leaves and whether it calls request_stop() on the three agents
StopState(st) == IF st = "RUNNING" THEN "STOPPING" ELSE st
StopSignals(st) == st = "RUNNING"

\* HealthAgent.record_request(True, elapsed_ms) with memory sample m: the
\* warnings it emits
RecordRequestWarnings(b, slow, m) ==
    LET b1 == IF slow
              THEN Emit(b, HEALTH_WARNING, "health_agent",
                        Payload("slow_response", 0, FALSE, slow, FALSE))
              ELSE b
    IN  IF m > 0
        THEN Emit(b1, HEALTH_WARNING, "health_agent",
                  Payload("high_memory", 0, FALSE, FALSE, FALSE))
        ELSE b1

\* faulty variant: a warning ends the session as well
StopEventsWithWarning == { HEALTH_WARNING, HEALTH_CRITICAL, SESSION_STOP }

\* the events whose branch of _dispatch calls self.stop()
StopEvents == { HEALTH_CRITICAL, SESSION_STOP }

\* AgentMetrics.record_request(True, elapsed_ms) on the counters m
record_request(m) ==
    [ m EXCEPT !.total_requests = @ + 1, !.successful_checks = @ + 1 ]

\* faulty variant: a detection is not counted
record_detection_skipped(m) == m

\* AgentMetrics.record_detection()
record_detection(m) == [ m EXCEPT !.seats_detected_count = @ + 1 ]

\* AgentMetrics.record_notification()
record_notification(m) == [ m EXCEPT !.notifications_sent = @ + 1 ]

\* OrchestratorAgent._dispatch(msg) in orchestrator state `st`, `rest` being the
\* bus without msg and m the memory sample record_request takes: the state,
\* stop signal, bus, metrics, notifier inbox and peak memory it leaves
Dispatched(msg, st, rest, m) ==
    LET same == [ state |-> st, signal |-> FALSE, bus |-> rest, metrics |-> metrics,
                  inbox |-> inbox, peakMem |-> peakMem ]
        p == msg.payload
    IN  IF msg.event = POLL_RESULT
        THEN IF ~p.isResult
             THEN [ same EXCEPT
                      !.metrics = record_request(metrics),
                      !.peakMem = m,
                      !.bus = RecordRequestWarnings(rest, p.slow, m) ]
             ELSE same
        ELSE IF msg.event = SEAT_DETECTED
        THEN IF p.isResult
             THEN [ same EXCEPT
                      !.metrics = record_detection(metrics),
                      !.inbox = Notify(inbox, CheckResult(p.n, p.seats)) ]
             ELSE same
        ELSE IF msg.event = NOTIFY_COMPLETE
        THEN [ same EXCEPT !.metrics = record_notification(metrics) ]
        ELSE IF msg.event \in StopEvents
        THEN [ same EXCEPT !.state = StopState(st), !.signal = StopSignals(st) ]
        ELSE IF msg.event = HEALTH_WARNING
        THEN same
        ELSE same

\* _event_loop from the top of its while loop, in state `st` with `signal`
\* telling whether request_stop() was just called: either the next
\* wait_for(event_bus.get(), 1.0), or the loop ends and _shutdown() runs up to
\* its wait_for(gather(*tasks), 10.0)
EventLoopTop(st, signal) ==
    IF st = "RUNNING" /\ monPc # "done"
    THEN /\ orchState' = st
         /\ orchPc' = "get"
         /\ orchTimer' = SetTimer(EVENT_LOOP_TIMEOUT)
         /\ monStop' = (monStop \/ signal)
         /\ notStop' = (notStop \/ signal)
         /\ hlStop' = (hlStop \/ signal)
    ELSE /\ orchState' = "STOPPING"
         /\ orchPc' = "shutdown"
         /\ orchTimer' = SetTimer(GRACEFUL_SHUTDOWN_TIMEOUT)
         /\ monStop' = TRUE
         /\ notStop' = TRUE
         /\ hlStop' = TRUE

ZeroMetrics ==
    [ total_requests |-> 0, successful_checks |-> 0, failed_checks |-> 0,
      seats_detected_count |-> 0, notifications_sent |-> 0 ]

\* OrchestratorAgent.run up to the first wait of the event loop: the input
\* agent passes the query on (QUERY_READY), the three agent tasks are created
OrchRun ==
    /\ orchPc = "idle"
    /\ bus' = Emit(bus, QUERY_READY, "input_agent", NoPayload)
    /\ emitted' = Emitted(bus, bus')
    /\ monPc' = "init"
    /\ notPc' = "init"
    /\ hlPc' = "init"
    /\ EventLoopTop("RUNNING", FALSE)
    /\ UNCHANGED << timed, startVars, unitVars, metrics, peakMem, monCancel, notCancel, monTimer,
                    request_count, consecutive_errors, tokens, sinceRefill, sincePoll, notTimer,
                    sending, notifications_sent, everNotified, unseated, sinceNotif, sinceHandle,
                    inbox, hlTimer, clocks, history >>

orchRest ==
    << timed, startVars, unitVars, monCancel, notCancel, monVars, notVars, hlVars, clocks, history >>

\* event_bus.get() returned the head of the bus: _dispatch, next iteration
OrchGetMsg ==
    /\ orchPc = "get"
    /\ bus # << >>
    /\ \E m \in MemSamples :
        LET d == Dispatched(Head(bus), orchState, Tail(bus), m)
        IN  /\ bus' = d.bus
            /\ metrics' = d.metrics
            /\ inbox' = d.inbox
            /\ peakMem' = d.peakMem
            /\ EventLoopTop(d.state, d.signal)
    /\ emitted' = Emitted(Tail(bus), bus')
    /\ UNCHANGED orchRest

\* wait_for(event_bus.get(), 1.0) raised TimeoutError: continue
OrchGetTimeout ==
    /\ orchPc = "get"
    /\ Expired(orchTimer)
    /\ EventLoopTop(orchState, FALSE)
    /\ UNCHANGED << orchRest, bus, metrics, inbox, peakMem, emitted >>

\* _shutdown: gather() of the three tasks completed within the timeout;
\* run() sets STOPPED and returns
OrchShutdownDone ==
    /\ orchPc = "shutdown"
    /\ AllDone
    /\ orchState' = "STOPPED"
    /\ orchPc' = "returned"
    /\ orchTimer' = 0
    /\ UNCHANGED << orchRest, monStop, notStop, hlStop, bus, metrics, inbox, peakMem,
                    emitted >>

\* faulty variant of _shutdown: on the timeout run() returns at once, the
\* tasks neither cancelled nor gathered
OrchShutdownGiveUp ==
    /\ orchPc = "shutdown"
    /\ ~AllDone
    /\ Expired(orchTimer)
    /\ orchState' = "STOPPED"
    /\ orchPc' = "returned"
    /\ orchTimer' = 0
    /\ UNCHANGED << orchRest, monStop, notStop, hlStop, bus, metrics, inbox, peakMem,
                    emitted >>

\* faulty variant of _shutdown: on the timeout the tasks are gathered again
\* without being cancelled
OrchShutdownNoCancel ==
    /\ orchPc = "shutdown"
    /\ ~AllDone
    /\ Expired(orchTimer)
    /\ orchPc' = "force"
    /\ orchTimer' = 0
    /\ UNCHANGED << timed, startVars, unitVars, orchState, monFlags, notFlags, hlFlags, monVars, notVars, hlVars,
                    clocks, history, bus, metrics, inbox, peakMem, emitted >>

\* _shutdown: the 10 s timeout expired: every task not done is cancelled and
\* gathered again
OrchShutdownTimeout ==
    /\ orchPc = "shutdown"
    /\ ~AllDone
    /\ Expired(orchTimer)
    /\ orchPc' = "force"
    /\ orchTimer' = 0
    /\ monCancel' = (monPc # "done")
    /\ notCancel' = (notPc # "done")
    /\ UNCHANGED << timed, startVars, unitVars, orchState, monStop, notStop, hlStop, monVars, notVars, hlVars,
                    clocks, history, bus, metrics, inbox, peakMem, emitted >>

\* _shutdown: the cancelled tasks have ended; run() sets STOPPED and returns
OrchForceDone ==
    /\ orchPc = "force"
    /\ AllDone
    /\ orchState' = "STOPPED"
    /\ orchPc' = "returned"
    /\ UNCHANGED << orchRest, orchTimer, monStop, notStop, hlStop, bus, metrics, inbox,
                    peakMem, emitted >>

\* the seconds counted after the external stop()
StopClockCap == GRACEFUL_SHUTDOWN_TIMEOUT + EVENT_LOOP_TIMEOUT + 1

\* OrchestratorAgent.stop called from outside (signal handler, GUI)
Stop ==
    /\ orchState' = StopState(orchState)
    /\ monStop' = (monStop \/ StopSignals(orchState))
    /\ notStop' = (notStop \/ StopSignals(orchState))
    /\ hlStop' = (hlStop \/ StopSignals(orchState))
    /\ sinceStop' = IF timed /\ orchState = "RUNNING" /\ sinceStop < 0 THEN 0 ELSE sinceStop
    /\ UNCHANGED << timed, startVars, unitVars, orchPc, orchTimer, bus, metrics, peakMem, monCancel, notCancel,
                    monVars, notVars, inbox, hlVars, elapsed,
                    emitted, history >>

OrchRunnable ==
    \/ orchPc = "get" /\ (bus # << >> \/ Expired(orchTimer))
    \/ orchPc = "shutdown" /\ (AllDone \/ Expired(orchTimer))
    \/ orchPc = "force" /\ AllDone

\* -------------------------------------------------------------------- time
Runnable == OrchRunnable \/ MonRunnable \/ NotRunnable \/ HlRunnable

\* the orchestrator or a task is suspended in an await
Suspended ==
    \/ orchPc \in { "get", "shutdown", "force" }
    \/ monPc \in { "acquire", "check", "wait" }
    \/ notPc \in { "get", "sending" }
    \/ hlPc = "wait"

\* Time passes while no task is runnable and no timeout is due: one second
\* with timed = TRUE, an unknown duration with timed = FALSE.
Tick ==
    /\ Suspended
    /\ ~Runnable
    /\ orchTimer' \in Elapse(orchTimer)
    /\ monTimer' \in Elapse(monTimer)
    /\ notTimer' \in Elapse(notTimer)
    /\ hlTimer' \in Elapse(hlTimer)
    /\ elapsed' \in IF timed
                     THEN { Min(elapsed + 1, max_session_duration + 1) }
                     ELSE { elapsed, max_session_duration + 1 }
    /\ sinceRefill' = IF timed THEN Min(sinceRefill + 1, Period) ELSE sinceRefill
    /\ sincePoll' = IF timed /\ sincePoll >= 0 THEN Min(sincePoll + 1, RATE_FLOOR) ELSE sincePoll
    /\ sinceNotif' = IF timed /\ everNotified
                     THEN Min(sinceNotif + 1, notification_cooldown) ELSE sinceNotif
    /\ sinceHandle' = IF timed /\ notPc = "sending"
                      THEN Min(sinceHandle + 1, notification_cooldown) ELSE sinceHandle
    /\ sinceStop' = IF timed /\ sinceStop >= 0
                    THEN Min(sinceStop + 1, StopClockCap) ELSE sinceStop
    /\ UNCHANGED << timed, startVars, unitVars, orchState, orchPc, bus, metrics, peakMem, monFlags, monPc,
                    request_count, consecutive_errors, tokens, notFlags, notPc, sending,
                    notifications_sent, everNotified, unseated, inbox, hlFlags, hlPc,
                    emitted, history >>

\* ---------------------------------------------------------- specification
\* the agents as their constructors leave them, the orchestrator in state st,
\* the monitor task at pc, the notifier task at npc and the bus holding b
AgentsCreated(st, pc, npc, b) ==
    /\ orchState = st
    /\ orchPc = "idle"
    /\ orchTimer = 0
    /\ bus = b
    /\ metrics = ZeroMetrics
    /\ peakMem = 0
    /\ monPc = pc
    /\ monStop = FALSE
    /\ monCancel = FALSE
    /\ monTimer = 0
    /\ request_count = 0
    /\ consecutive_errors = 0
    /\ tokens = BURST * Period
    /\ sinceRefill = 0
    /\ sincePoll = -1
    /\ notPc = npc
    /\ notStop = FALSE
    /\ notCancel = FALSE
    /\ notTimer = 0
    /\ inbox = << >>
    /\ sending = NotSending
    /\ notifications_sent = 0
    /\ everNotified = FALSE
    /\ unseated = FALSE
    /\ sinceNotif = 0
    /\ sinceHandle = 0
    /\ hlPc = "none"
    /\ hlStop = FALSE
    /\ hlTimer = 0
    /\ elapsed = 0
    /\ emitted = [ e \in AgentEvent |-> 0 ]
    /\ succeeded = 0
    /\ detected = 0
    /\ limitHit = FALSE
    /\ critAfterErrors = FALSE
    /\ sinceStop = -1
    /\ failed = { }
    /\ lifecycle = [ a \in Agents |-> "INIT" ]
    /\ startPc = [ a \in Agents |-> "created" ]

\* the session is given a query that ValidationSkill built
CreatedWith(st, pc, npc, b) ==
    /\ AgentsCreated(st, pc, npc, b)
    /\ query = TrainQuery(<< "Seoul" >>, << "Busan" >>, 0)
    /\ send = NoSend
    /\ poller = NoPoller
    /\ limiter = NoLimiter
    /\ FnIdle

Created(st, pc, b) == CreatedWith(st, pc, "none", b)

Next ==
    \/ OrchRun
    \/ OrchGetMsg
    \/ OrchGetTimeout
    \/ OrchShutdownDone
    \/ OrchShutdownTimeout
    \/ OrchForceDone
    \/ Stop
    \/ MonStart
    \/ MonAcquireWake
    \/ MonCheckReturn
    \/ MonWaitStop
    \/ MonWaitTimeout
    \/ MonCancelled
    \/ NotStart
    \/ NotGetTimeout
    \/ NotGetItem
    \/ NotSendDone
    \/ NotCancelled
    \/ HlStart
    \/ HlWaitStop
    \/ HlTick
    \/ Tick

\* a session whose durations are unknown / a session counted in seconds
Init == timed = FALSE /\ Created("IDLE", "none", << >>)
TimedInit == timed = TRUE /\ Created("IDLE", "none", << >>)

Spec == Init /\ [][Next]_vars
TimedSpec == TimedInit /\ [][Next]_vars

\* ------------------------------------------- the monitor agent on its own
\* BaseAgent.request_stop called on the monitor
MonRequestStop ==
    /\ monStop' = TRUE
    /\ UNCHANGED << timed, startVars, unitVars, orchVars, bus, metrics, peakMem, monCancel, monVars, notFlags,
                    notVars, inbox, hlFlags, hlVars, clocks, emitted, history >>

\* MonitorAgent(config, event_bus).start() with nobody reading the bus, as
\* tests/integration/test_monitor_flow.py runs it
MonitorInit == timed = FALSE /\ Created("IDLE", "init", << >>)

MonitorNext ==
    \/ MonStart
    \/ MonAcquireWake
    \/ MonCheckReturn
    \/ MonWaitStop
    \/ MonWaitTimeout
    \/ MonRequestStop
    \/ Tick

MonitorSpec == MonitorInit /\ [][MonitorNext]_vars

\* the same with the seconds counted
TimedMonitorInit == timed = TRUE /\ Created("IDLE", "init", << >>)

TimedMonitorSpec == TimedMonitorInit /\ [][MonitorNext]_vars

\* ------------------------------------------- _dispatch and stop on their own
\* the messages handed to _dispatch
DispatchInputs ==
    { AgentMessage(e, "test", Payload("", 1, seats, slow, isResult)) :
          e \in AgentEvent, seats \in BOOLEAN, slow \in BOOLEAN, isResult \in BOOLEAN }

\* OrchestratorAgent._dispatch(Head(bus)) called outside run(), as
\* tests/unit/test_orchestrator.py calls it
DispatchHead ==
    /\ orchPc = "idle"
    /\ bus # << >>
    /\ \E m \in MemSamples :
        LET d == Dispatched(Head(bus), orchState, Tail(bus), m)
        IN  /\ orchState' = d.state
            /\ monStop' = (monStop \/ d.signal)
            /\ notStop' = (notStop \/ d.signal)
            /\ hlStop' = (hlStop \/ d.signal)
            /\ bus' = d.bus
            /\ metrics' = d.metrics
            /\ inbox' = d.inbox
            /\ peakMem' = d.peakMem
    /\ emitted' = Emitted(Tail(bus), bus')
    /\ UNCHANGED << orchPc, orchTimer, orchRest >>

\* an orchestrator put in any state, with one message to dispatch
DispatchInit ==
    /\ timed = FALSE
    /\ \E st \in OrchestratorState, msg \in DispatchInputs : Created(st, "none", << msg >>)

DispatchNext ==
    \/ DispatchHead
    \/ Stop

DispatchSpec == DispatchInit /\ [][DispatchNext]_vars

\* ------------------------------------------------- the unattended session
\* what the event loop runs as soon as it can, and the passing of time
Scheduled ==
    \/ OrchRun
    \/ OrchGetMsg
    \/ OrchGetTimeout
    \/ OrchShutdownDone
    \/ OrchShutdownTimeout
    \/ OrchForceDone
    \/ MonStart
    \/ MonAcquireWake
    \/ MonWaitStop
    \/ MonWaitTimeout
    \/ MonCancelled
    \/ NotStart
    \/ NotGetTimeout
    \/ NotGetItem
    \/ NotCancelled
    \/ HlStart
    \/ HlWaitStop
    \/ HlTick
    \/ Tick

\* a session in which stop() is never called from outside
UnattendedNext ==
    \/ Scheduled
    \/ MonCheckReturn
    \/ NotSendDone

\* The event loop keeps running what can run and time keeps passing (WF on
\* Scheduled), and every check() call returns or raises (WF on
\* MonCheckReturn).  Nothing is assumed of send(): it may never return.
FairSpec ==
    /\ TimedInit
    /\ [][UnattendedNext]_vars
    /\ WF_vars(Scheduled)
    /\ WF_vars(MonCheckReturn)

\* ------------------------------------------ the notifier agent on its own
\* how many results wait in the inbox / how many notifications are sent
\* before notify() is no longer called
MaxInbox == 2
MaxNotified == 2

\* NotifierAgent.notify(result) called from outside
NotNotify ==
    /\ Len(inbox) < MaxInbox
    /\ notifications_sent < MaxNotified
    /\ \E k \in 1..MaxInbox, seats \in BOOLEAN :
        inbox' = Notify(inbox, CheckResult(k, seats))
    /\ UNCHANGED << timed, startVars, unitVars, orchVars, bus, metrics, peakMem, monFlags, monVars, notFlags,
                    notVars, hlFlags, hlVars, clocks, emitted, history >>

\* NotifierAgent(config, event_bus).start() with nobody reading the bus, the
\* durations counted in seconds
NotifierInit == timed = TRUE /\ CreatedWith("IDLE", "none", "init", << >>)

NotifierNext ==
    \/ NotStart
    \/ NotGetTimeout
    \/ NotGetItem
    \/ NotSendDone
    \/ NotNotify
    \/ Tick

NotifierSpec == NotifierInit /\ [][NotifierNext]_vars

\* -------------------------------------------- an agent's run() that raises
\* how many agents' run() raise in a session
MaxFaults == 1

\* run() of the monitor raises an Exception that _poll_once does not catch, at
\* the await it is suspended in: start() logs it, runs teardown() and the task
\* ends with the exception
MonRaise ==
    /\ Cardinality(failed) < MaxFaults
    /\ monPc \in { "acquire", "check", "wait" }
    /\ ~monCancel
    /\ failed' = failed \cup { "monitor_agent" }
    /\ monPc' = "done"
    /\ monTimer' = 0
    /\ UNCHANGED << timed, unitVars, lifecycle, startPc, orchVars, metrics, peakMem, monFlags,
                    notFlags, notVars, inbox, hlFlags, hlVars, clocks, request_count,
                    consecutive_errors, tokens, sinceRefill, sincePoll, bus, emitted, history >>

\* run() of the notifier raises an Exception outside the try of
\* _handle_notification
NotRaise ==
    /\ Cardinality(failed) < MaxFaults
    /\ notPc \in { "get", "sending" }
    /\ ~notCancel
    /\ failed' = failed \cup { "notifier_agent" }
    /\ notPc' = "done"
    /\ notTimer' = 0
    /\ sending' = NotSending
    /\ sinceHandle' = 0
    /\ UNCHANGED << timed, unitVars, lifecycle, startPc, orchVars, metrics, peakMem, monFlags,
                    monVars, notFlags, hlFlags, hlVars, clocks, history, inbox,
                    notifications_sent, everNotified, unseated, sinceNotif, bus, emitted >>

\* run() of the health agent raises an Exception (update_memory() catches
\* ImportError only)
HlRaise ==
    /\ Cardinality(failed) < MaxFaults
    /\ hlPc = "wait"
    /\ failed' = failed \cup { "health_agent" }
    /\ hlPc' = "done"
    /\ hlTimer' = 0
    /\ UNCHANGED << timed, unitVars, lifecycle, startPc, orchVars, metrics, peakMem, monFlags,
                    monVars, notFlags, notVars, inbox, hlFlags, clocks, history, bus,
                    emitted >>

\* a session in which stop() is never called from outside and the run() of
\* an agent may raise
FaultNext ==
    \/ UnattendedNext
    \/ MonRaise
    \/ NotRaise
    \/ HlRaise

FaultSpec == Init /\ [][FaultNext]_vars

\* --------------------------------------------- BaseAgent.start on its own
startRest ==
    << timed, unitVars, orchVars, bus, metrics, peakMem, monFlags, monVars, notFlags, notVars,
       inbox, hlFlags, hlVars, clocks, emitted, history >>

\* _set_lifecycle(state) of agent a, start() going on to pc
SetLifecycle(a, state, pc) ==
    /\ lifecycle' = [ lifecycle EXCEPT ![a] = state ]
    /\ startPc' = [ startPc EXCEPT ![a] = pc ]

\* faulty variant of the except branch: the agent is set back to INIT
AwaitEndedRestarts(outcome) == IF outcome = "raise" THEN "INIT" ELSE "DRAINING"

\* the lifecycle set first when the awaited setup() or run() ends: an
\* Exception enters the except branch, a return or a CancelledError goes
\* straight to the finally block
AwaitEnded(outcome) == IF outcome = "raise" THEN "RECOVERING" ELSE "DRAINING"

\* start() is called: INIT is set and setup() awaited
StartBegin(a) ==
    /\ startPc[a] = "created"
    /\ SetLifecycle(a, "INIT", "setup")
    /\ UNCHANGED << startRest, failed >>

\* setup() returned: READY is set
StartSetupDone(a) ==
    /\ startPc[a] = "setup"
    /\ SetLifecycle(a, "READY", "ready")
    /\ UNCHANGED << startRest, failed >>

\* ACTIVE is set and run() awaited
StartRun(a) ==
    /\ startPc[a] = "ready"
    /\ SetLifecycle(a, "ACTIVE", "run")
    /\ UNCHANGED << startRest, failed >>

\* run() returns, or setup() or run() raises an Exception, or the task is
\* cancelled while it awaits setup() or run()
StartAwaitEnds(a) ==
    /\ startPc[a] \in { "setup", "run" }
    /\ \E outcome \in { "return", "raise", "cancel" } :
        /\ outcome = "return" => startPc[a] = "run"
        /\ SetLifecycle(a, AwaitEnded(outcome),
                        IF outcome = "raise" THEN "except" ELSE "teardown")
        /\ failed' = IF outcome = "raise" /\ startPc[a] = "run"
                     THEN failed \cup { a } ELSE failed
    /\ UNCHANGED startRest

\* the except branch re-raises: the finally block sets DRAINING and awaits
\* teardown()
StartFinally(a) ==
    /\ startPc[a] = "except"
    /\ SetLifecycle(a, "DRAINING", "teardown")
    /\ UNCHANGED << startRest, failed >>

\* teardown() returned: OFF is set, start() ends
StartTeardownDone(a) ==
    /\ startPc[a] = "teardown"
    /\ SetLifecycle(a, "OFF", "ended")
    /\ UNCHANGED << startRest, failed >>

\* teardown() raises or is cancelled: start() ends with OFF never set
StartTeardownFails(a) ==
    /\ startPc[a] = "teardown"
    /\ SetLifecycle(a, lifecycle[a], "ended")
    /\ UNCHANGED << startRest, failed >>

LifecycleNext ==
    \/ \E a \in Agents : StartBegin(a)
    \/ \E a \in Agents : StartSetupDone(a)
    \/ \E a \in Agents : StartRun(a)
    \/ \E a \in Agents : StartAwaitEnds(a)
    \/ \E a \in Agents : StartFinally(a)
    \/ \E a \in Agents : StartTeardownDone(a)
    \/ \E a \in Agents : StartTeardownFails(a)

\* start() of the three agents, each called once
LifecycleSpec == Init /\ [][LifecycleNext]_vars

\* ------------------------------------------------ run() with any TrainQuery
\* the TrainQuery objects a caller can construct: __post_init__ checks the
\* passenger count and the time range only
Queries ==
    { TrainQuery(dep, arr, day) :
          dep \in { << "Seoul" >>, << "Seoul", "yeok" >>, << "Nowhere" >> },
          arr \in { << "Seoul" >>, << "Busan" >>, << "Nowhere" >> },
          day \in { -1, 0, MAX_FUTURE_DAYS, MAX_FUTURE_DAYS + 1 } }

QueryInit ==
    /\ timed = FALSE
    /\ AgentsCreated("IDLE", "none", "none", << >>)
    /\ query \in Queries
    /\ send = NoSend
    /\ poller = NoPoller
    /\ limiter = NoLimiter
    /\ FnIdle

\* the start of the session, up to the first poll
QueryNext ==
    \/ OrchRun
    \/ OrchGetMsg
    \/ OrchGetTimeout
    \/ MonStart
    \/ NotStart
    \/ HlStart
    \/ Tick

QuerySpec == QueryInit /\ [][QueryNext]_vars

\* ---------------------------------------------- NotifierSkill.send alone
\* how many entries the notification_methods list has at most
MaxMethods == 3

\* the channels send() knows / the names a configuration can hold
Channels == { "desktop", "sound", "webhook" }
MethodNames == Channels \cup { "email" }

MethodLists == UNION { [ 1..n -> MethodNames ] : n \in 0..MaxMethods }

\* NotifierSkill.__init__: methods or ["desktop", "sound"]
NotifierSkillMethods(methods) ==
    IF methods = << >> THEN << "desktop", "sound" >> ELSE methods

IsChannel(m) == m \in Channels

\* the for loop of send(): one task per method that names a channel, in the
\* order of _methods
ChannelTasks(methods) ==
    LET enabled == SelectSeq(methods, IsChannel)
    IN  [ i \in 1..Len(enabled) |-> [ method |-> enabled[i], state |-> "pending" ] ]

\* faulty variant of the gather: the first exception of a channel is raised
\* to the caller
GatheredPropagating(tasks) ==
    IF \E i \in 1..Len(tasks) : tasks[i].state = "raised" THEN "raised" ELSE "gather"

\* asyncio.gather(*tasks, return_exceptions=True): exceptions are results,
\* the await ends when every task has ended
Gathered(tasks) ==
    IF \A i \in 1..Len(tasks) : tasks[i].state # "pending" THEN "returned" ELSE "gather"

sendRest ==
    << timed, startVars, query, poller, limiter, fnVars, orchVars, bus, metrics, peakMem, monFlags, monVars,
       notFlags, notVars, inbox, hlFlags, hlVars, clocks, emitted, history >>

\* send(result) up to its await of gather()
SendCall ==
    /\ send.pc = "created"
    /\ LET tasks == IF send.available THEN ChannelTasks(send.methods) ELSE << >>
       IN  send' = [ send EXCEPT !.tasks = tasks,
                                 !.pc = IF tasks = << >> THEN "returned" ELSE "gather" ]
    /\ UNCHANGED sendRest

\* the task of one channel runs to its end: the channel returns or raises
SendChannelEnds ==
    /\ send.pc = "gather"
    /\ \E i \in 1..Len(send.tasks), outcome \in { "done", "raised" } :
        /\ send.tasks[i].state = "pending"
        /\ LET tasks == [ send.tasks EXCEPT ![i].state = outcome ]
           IN  send' = [ send EXCEPT !.tasks = tasks, !.pc = Gathered(tasks) ]
    /\ UNCHANGED sendRest

SendInit ==
    /\ timed = FALSE
    /\ AgentsCreated("IDLE", "none", "none", << >>)
    /\ query = TrainQuery(<< "Seoul" >>, << "Busan" >>, 0)
    /\ poller = NoPoller
    /\ limiter = NoLimiter
    /\ FnIdle
    /\ \E methods \in MethodLists, available \in BOOLEAN :
        send = [ methods |-> NotifierSkillMethods(methods), available |-> available,
                 tasks |-> << >>, pc |-> "created" ]

SendNext ==
    \/ SendCall
    \/ SendChannelEnds

SendSpec == SendInit /\ [][SendNext]_vars

\* ------------------------------------------------------ PollerSkill alone
\* the constructor arguments looked at: the defaults of AgentConfig, and
\* --interval 600 with the default max_interval
PollerConfigs ==
    { << 30, 300, 5 >>, << 600, 300, 5 >>, << base_interval, max_interval, jitter_range >> }

pollerRest ==
    << timed, startVars, query, send, limiter, fnVars, orchVars, bus, metrics, peakMem, monFlags, monVars,
       notFlags, notVars, inbox, hlFlags, hlVars, clocks, emitted, history >>

PollerInit ==
    /\ timed = FALSE
    /\ AgentsCreated("IDLE", "none", "none", << >>)
    /\ query = TrainQuery(<< "Seoul" >>, << "Busan" >>, 0)
    /\ send = NoSend
    /\ limiter = NoLimiter
    /\ FnIdle
    /\ \E c \in PollerConfigs : poller = PollerSkill(c[1], c[2], c[3])

\* next_interval(had_error) is called
PollerCall ==
    /\ poller.calls < MaxCalls
    /\ \E had_error \in BOOLEAN, j \in { 0, poller.jitter } :
        poller' = next_interval(poller, had_error, j)
    /\ UNCHANGED pollerRest

PollerSpec == PollerInit /\ [][PollerCall]_vars

\* ------------------------------------------- TokenBucketRateLimiter alone
\* (seconds per token, burst) of the limiters looked at
LimiterConfigs == { << 2, 2 >>, << 3, 1 >> }

limiterRest ==
    << timed, startVars, query, send, poller, fnVars, orchVars, bus, metrics, peakMem, monFlags,
       monVars, notFlags, notVars, inbox, hlFlags, hlVars, clocks, emitted, history >>

LimiterInit ==
    /\ timed = TRUE
    /\ AgentsCreated("IDLE", "none", "none", << >>)
    /\ query = TrainQuery(<< "Seoul" >>, << "Busan" >>, 0)
    /\ send = NoSend
    /\ poller = NoPoller
    /\ FnIdle
    /\ \E c \in LimiterConfigs : limiter = TokenBucketRateLimiter(c[1], c[2])

\* a task calls acquire()
LimiterAcquire ==
    /\ \E i \in Callers :
        /\ limiter.sleep[i] = -1
        /\ limiter' = acquire(limiter, i)
    /\ UNCHANGED limiterRest

\* asyncio.sleep(sleep_time) of a caller is over, at once or late
LimiterWake ==
    /\ \E i \in Callers :
        /\ limiter.sleep[i] = 0
        /\ limiter' = acquire(limiter, i)
    /\ UNCHANGED limiterRest

LimiterTick ==
    /\ limiter' = LimiterSecond(limiter)
    /\ UNCHANGED limiterRest

LimiterNext ==
    \/ LimiterAcquire
    \/ LimiterWake
    \/ LimiterTick

LimiterSpec == LimiterInit /\ [][LimiterNext]_vars

\* ------------------------------------------------- _seat_count_from_code
fnRest ==
    << timed, startVars, query, send, poller, limiter, checker, korail, orchVars, bus, metrics, peakMem,
       monFlags, monVars, notFlags, notVars, inbox, hlFlags, hlVars, clocks, emitted, history >>

\* the session and the other units, none of them started
Unstarted ==
    /\ timed = FALSE
    /\ AgentsCreated("IDLE", "none", "none", << >>)
    /\ query = TrainQuery(<< "Seoul" >>, << "Busan" >>, 0)
    /\ send = NoSend
    /\ poller = NoPoller
    /\ limiter = NoLimiter

RECURSIVE NamesUpTo(_)
NamesUpTo(n) ==
    IF n = 0 THEN { << >> }
    ELSE NamesUpTo(n - 1) \cup { Append(name, w) : name \in NamesUpTo(n - 1), w \in NameWords }

\* the reservation codes and display names _parse_response reads
SeatCountInit ==
    /\ Unstarted
    /\ checker = NoChecker
    /\ korail = NoKorailAgent
    /\ \E code \in { "11", "13", "00", "" }, name \in NamesUpTo(MaxName) :
        call = Called("_seat_count_from_code", << code, name >>)

SeatCountReturn ==
    /\ call.fn = "_seat_count_from_code"
    /\ call.pc = "called"
    /\ call' = [ call EXCEPT !.pc = "returned",
                             !.result = seat_count_from_code(call.args[1], call.args[2]) ]
    /\ UNCHANGED fnRest

SeatCountSpec == SeatCountInit /\ [][SeatCountReturn]_vars

\* ------------------------------------------------- SeatCheckerSkill.check
checkRest ==
    << timed, startVars, query, send, poller, limiter, call, korail, orchVars, bus, metrics, peakMem,
       monFlags, monVars, notFlags, notVars, inbox, hlFlags, hlVars, clocks, emitted, history >>

\* what the endpoint may answer to the request of page p
Responses(p) ==
    { [ kind |-> "error", size |-> 0, strResult |-> "", trn_info |-> << >>,
        h_next_pg_flg |-> "", h_trn_no_next |-> "" ],
      [ kind |-> "ok", size |-> 1, strResult |-> "FAIL", trn_info |-> << >>,
        h_next_pg_flg |-> "", h_trn_no_next |-> "" ] }
    \cup
    { [ kind |-> "ok", size |-> size, strResult |-> "SUCC", trn_info |-> trains,
        h_next_pg_flg |-> flg, h_trn_no_next |-> IF flg = "Y" THEN "next" ELSE "" ] :
          size \in { 1, MaxPageSize },
          trains \in { << >>, << Train(p, 1, TRUE) >>,
                       << Train(p, 1, FALSE), Train(p, 2, TRUE) >> },
          flg \in { "Y", "N" } }

\* check(query) up to its first session.get
CheckInit ==
    /\ Unstarted
    /\ call = NoCall
    /\ korail = NoKorailAgent
    /\ checker = [ NoChecker EXCEPT !.pc = "get" ]

\* the request of check() is answered
CheckResponse ==
    /\ checker.pc = "get"
    /\ \E data \in Responses(Len(checker.pages) + 1) :
        checker' = page_received(checker, data)
    /\ UNCHANGED checkRest

\* every request ends: ClientTimeout(total = request_timeout)
CheckSpec == CheckInit /\ [][CheckResponse]_vars /\ WF_vars(CheckResponse)

\* --------------------------------------------------------- _calc_duration
\* the wall-clock times looked at: every hour, three minutes of it
Times == { Time(h, m) : h \in 0..23, m \in { 0, 30, 59 } }

DurationInit ==
    /\ Unstarted
    /\ checker = NoChecker
    /\ korail = NoKorailAgent
    /\ \E dep \in Times, arr \in Times : call = Called("_calc_duration", << dep, arr >>)

DurationReturn ==
    /\ call.fn = "_calc_duration"
    /\ call.pc = "called"
    /\ call' = [ call EXCEPT !.pc = "returned",
                             !.result = calc_duration(call.args[1], call.args[2]) ]
    /\ UNCHANGED fnRest

DurationSpec == DurationInit /\ [][DurationReturn]_vars

\* -------------------------------------------------------- validate_station
\* the names of the tables, and names of neither
StationNames ==
    STATION_CODES \cup AliasKeys
        \cup { << >>, << "Nowhere" >>, << "yeok" >>, << "Seoul", "Busan" >>, << "Busan", "(" >> }

\* text put between the first k pieces of a name and the rest
Spaced(name, k, gap) == SubSeq(name, 1, k) \o gap \o SubSeq(name, k + 1, Len(name))

\* the names typed: those of StationNames, with or without white space
\* around them or in them
StationInit ==
    /\ Unstarted
    /\ checker = NoChecker
    /\ korail = NoKorailAgent
    /\ \E name \in StationNames, lead \in { << >>, << " " >>, << "\t" >> },
          trail \in { << >>, << " ", " " >> }, gap \in { << >>, << " " >>, << "\t" >> } :
        \E k \in 0..Len(name) :
            call = Called("validate_station", << lead \o Spaced(name, k, gap) \o trail >>)

StationReturn ==
    /\ call.fn = "validate_station"
    /\ call.pc = "called"
    /\ call' = [ call EXCEPT !.pc = "returned", !.result = validate_station(call.args[1]) ]
    /\ UNCHANGED fnRest

StationSpec == StationInit /\ [][StationReturn]_vars

\* ------------------------------------------------------ KorailAgent alone
korailRest ==
    << timed, startVars, query, send, poller, limiter, call, checker, orchVars, bus, metrics,
       peakMem, monFlags, monVars, notFlags, notVars, inbox, hlFlags, hlVars, clocks, emitted,
       history >>

KorailInit ==
    /\ Unstarted
    /\ call = NoCall
    /\ checker = NoChecker
    /\ korail = KorailAgent

\* start(query) is called, for the first time or after it has returned
KorailStart ==
    /\ korail.pc \in { "created", "ended" }
    /\ \E timeout \in BOOLEAN :
        korail' = korail_loop(transition([ Stepping(korail) EXCEPT !.running = TRUE ],
                                         "MONITORING"), timeout)
    /\ UNCHANGED korailRest

\* stop() is called
KorailStop ==
    /\ korail.pc # "created"
    /\ korail.running
    /\ korail' = [ Stepping(korail) EXCEPT !.running = FALSE ]
    /\ UNCHANGED korailRest

\* check() returns or raises; with seats _handle_detection runs up to send()
KorailCheckEnds ==
    /\ korail.pc = "check"
    /\ \E outcome \in { "seats", "cooldown", "none", "raise" } :
        LET a == Stepping(korail)
        IN  korail' =
              CASE outcome = "seats" -> [ transition(a, "DETECTED") EXCEPT !.pc = "send" ]
                [] outcome = "cooldown" ->
                     korail_polled(transition(transition(a, "DETECTED"), "MONITORING"), FALSE)
                [] outcome = "none" -> korail_polled(a, FALSE)
                [] outcome = "raise" ->
                     korail_polled(
                         transition(transition([ a EXCEPT !.error_count = a.error_count + 1 ],
                                               "ERROR"), "MONITORING"), TRUE)
    /\ UNCHANGED korailRest

\* send() returns or raises: the rest of _handle_detection and of _poll_once
KorailSendEnds ==
    /\ korail.pc = "send"
    /\ \E raised \in BOOLEAN :
        LET a == Stepping(korail)
            b == IF raised THEN a ELSE transition(a, "NOTIFIED")
        IN  korail' = korail_polled(transition(b, "MONITORING"), FALSE)
    /\ UNCHANGED korailRest

\* asyncio.sleep(interval) is over, or cancelled: break
KorailSleepEnds ==
    /\ korail.pc = "sleep"
    /\ \E cancelled \in BOOLEAN, timeout \in BOOLEAN :
        korail' = IF cancelled
                  THEN [ transition(Stepping(korail), "STOPPED") EXCEPT !.pc = "ended" ]
                  ELSE korail_loop(Stepping(korail), timeout)
    /\ UNCHANGED korailRest

\* the task is cancelled inside check() or send(): the finally of start()
KorailCancelled ==
    /\ korail.pc \in { "check", "send" }
    /\ korail' = [ transition(Stepping(korail), "STOPPED") EXCEPT !.pc = "ended" ]
    /\ UNCHANGED korailRest

KorailNext ==
    \/ KorailStart
    \/ KorailStop
    \/ KorailCheckEnds
    \/ KorailSendEnds
    \/ KorailSleepEnds
    \/ KorailCancelled

KorailSpec == KorailInit /\ [][KorailNext]_vars

\* ------------------------------------------- run() called more than once
\* how many times run() is called on the one OrchestratorAgent
MaxRuns == 2

\* OrchestratorAgent.run called again after it returned: the state is set to
\* RUNNING, the query passed on, and start() of the same three agents put in
\* new tasks; their stop events, counters and the metrics are what the
\* earlier run left, setup() takes a new _start_time
OrchRunAgain ==
    /\ orchPc = "returned"
    /\ emitted[QUERY_READY] < MaxRuns
    /\ bus' = Emit(bus, QUERY_READY, "input_agent", NoPayload)
    /\ emitted' = Emitted(bus, bus')
    /\ monPc' = "init"
    /\ notPc' = "init"
    /\ hlPc' = "init"
    /\ elapsed' = 0
    /\ sinceStop' = -1
    /\ EventLoopTop("RUNNING", FALSE)
    /\ UNCHANGED << timed, startVars, unitVars, metrics, peakMem, monCancel, notCancel, monTimer,
                    request_count, consecutive_errors, tokens, sinceRefill, sincePoll, notTimer,
                    sending, notifications_sent, everNotified, unseated, sinceNotif, sinceHandle,
                    inbox, hlTimer, history >>

ReuseNext ==
    \/ Next
    \/ OrchRunAgain

ReuseSpec == Init /\ [][ReuseNext]_vars

\* ================================================================ claims
\* C1: every poll whose check() returns seats_available = true puts exactly
\* one SEAT_DETECTED on the bus, carrying that CheckResult; a poll that
\* returns no seats or raises, and every other step, puts none.
C1_SeatDetectedPerPoll ==
    [][ IF detected' = detected + 1
        THEN /\ emitted'[SEAT_DETECTED] = emitted[SEAT_DETECTED] + 1
             /\ bus' # << >>
             /\ LET msg == bus'[Len(bus')]
                IN  /\ msg.event = SEAT_DETECTED
                    /\ msg.payload.isResult
                    /\ msg.payload.seats
                    /\ msg.payload.n = request_count'
        ELSE emitted'[SEAT_DETECTED] = emitted[SEAT_DETECTED] ]_vars

\* three polls done: one raised, one found nothing, one found seats and was
\* announced once
C1_Witness ==
    /\ request_count = 3
    /\ succeeded = 2
    /\ detected = 1
    /\ emitted[SEAT_DETECTED] = 1

\* C2: a session in which the monitor hit a limit has put exactly one
\* HEALTH_CRITICAL on the bus by the time run() returns.
C2_OneCriticalPerSession ==
    (orchPc = "returned" /\ limitHit) => emitted[HEALTH_CRITICAL] = 1

\* C3: once a HEALTH_CRITICAL has been put on the bus, no step puts a
\* POLL_RESULT on it.
C3_NoPollResultAfterCritical ==
    [][ emitted[HEALTH_CRITICAL] > 0 => emitted'[POLL_RESULT] = emitted[POLL_RESULT] ]_vars

\* C4: after the monitor has emitted HEALTH_CRITICAL {consecutive_errors} it
\* starts no further poll: no step puts a POLL_START on the bus.
C4_NoPollAfterErrorLimit ==
    [][ critAfterErrors => emitted'[POLL_START] = emitted[POLL_START] ]_vars

\* C5: request_count never exceeds max_requests_per_session, and no more
\* polls than that are started in a session.
C5_RequestCap ==
    /\ request_count <= max_requests_per_session
    /\ emitted[POLL_START] <= max_requests_per_session

\* the cap was reached within the session duration and the monitor left its
\* loop with HEALTH_CRITICAL {session_limit_reached}
C5_Witness ==
    /\ request_count = max_requests_per_session
    /\ elapsed <= max_session_duration
    /\ monPc = "done"
    /\ limitHit
    /\ ~critAfterErrors
    /\ ~monStop

\* C6: at every point the number of POLL_RESULT messages emitted is the
\* number of check() calls that returned a result.
C6_PollResultPerSuccess == emitted[POLL_RESULT] = succeeded

\* two polls succeeded without seats and one raised
C6_Witness ==
    /\ request_count = 3
    /\ succeeded = 2
    /\ detected = 0
    /\ consecutive_errors = 1
    /\ emitted[POLL_RESULT] = 2

\* C7: in state RUNNING, dispatching HEALTH_CRITICAL or SESSION_STOP (a step
\* that takes the head off the bus) and calling stop() (a step that leaves
\* the bus alone) both leave the orchestrator STOPPING with the stop flags
\* of the monitor, the notifier and the health agent set.
C7_CriticalAndSessionStopAreStop ==
    [][ ( /\ orchState = "RUNNING"
          /\ \/ bus' = bus
             \/ Head(bus).event \in { HEALTH_CRITICAL, SESSION_STOP } )
        => ( /\ orchState' = "STOPPING"
             /\ monStop'
             /\ notStop'
             /\ hlStop' ) ]_vars

\* the message was dispatched and the orchestrator is stopping, all three
\* agents told to stop
C7_Witness ==
    /\ bus = << >>
    /\ orchState = "STOPPING"
    /\ monStop
    /\ notStop
    /\ hlStop

\* C8: when run() has returned the state is STOPPED, the three tasks have
\* ended, no check() is in flight and no send() is in progress.
C8_ReturnedMeansAllEnded ==
    orchPc = "returned" =>
        /\ orchState = "STOPPED"
        /\ AllDone
        /\ monPc # "check"
        /\ notPc # "sending"
        /\ sending = NotSending
        /\ ~monCancel
        /\ ~notCancel

\* run() returned from a session that polled and was stopped from outside
C8_Witness ==
    /\ orchPc = "returned"
    /\ request_count > 0
    /\ emitted[HEALTH_CRITICAL] = 0

\* C9: run() has returned at most GRACEFUL_SHUTDOWN_TIMEOUT seconds after
\* the stop() call that took effect.
C9_ReturnsWithinTimeout ==
    (orchPc = "returned" /\ sinceStop >= 0) => sinceStop <= GRACEFUL_SHUTDOWN_TIMEOUT

\* C10: a session in which stop() is never called ends: run() eventually
\* returns.
C10_SessionTerminates == <>(orchPc = "returned")

\* run() returned after the monitor ran into a session limit
C10_Witness ==
    /\ orchPc = "returned"
    /\ sinceStop < 0
    /\ request_count > 0
    /\ limitHit
    /\ ~critAfterErrors

\* C11: a call of stop() (a step that leaves the bus alone) changes nothing
\* but the orchestrator state and the three stop flags; in RUNNING it leaves
\* STOPPING with the three flags set, in any other state it changes nothing;
\* it never leaves RUNNING behind, so a second call in a row changes nothing.
C11_StopOnlyFlipsStateAndFlags ==
    [][ bus' = bus =>
          /\ UNCHANGED << orchPc, orchTimer, metrics, peakMem, inbox, emitted, monCancel,
                          notCancel, monVars, notVars, hlVars, elapsed, history >>
          /\ IF orchState = "RUNNING"
             THEN orchState' = "STOPPING" /\ monStop' /\ notStop' /\ hlStop'
             ELSE UNCHANGED << orchState, monStop, notStop, hlStop >>
          /\ orchState' # "RUNNING" ]_vars

\* stop() was called in RUNNING, the message still waiting to be dispatched
C11_Witness ==
    /\ bus # << >>
    /\ emitted[HEALTH_WARNING] = 0
    /\ metrics = ZeroMetrics
    /\ inbox = << >>
    /\ orchState = "STOPPING"
    /\ monStop
    /\ notStop
    /\ hlStop

\* C12: the orchestrator state only moves forward along IDLE, RUNNING,
\* STOPPING, STOPPED, and once STOPPED it never changes.
StateRank(st) ==
    IF st = "IDLE" THEN 0 ELSE IF st = "RUNNING" THEN 1 ELSE IF st = "STOPPING" THEN 2 ELSE 3

C12_StateOnlyMovesForward ==
    [][ StateRank(orchState') >= StateRank(orchState) ]_vars

\* C13: once the monitor's stop flag is set, no POLL_START is emitted and no
\* check() call begins.
C13_NoPollStartAfterStopFlag ==
    [][ monStop => /\ emitted'[POLL_START] = emitted[POLL_START]
                   /\ (monPc' = "check" => monPc = "check") ]_vars

\* C14: when the notifier handles a detection with seats, the first one of the
\* session is sent whatever the time; after a sent one, a detection handled
\* less than notification_cooldown later is dropped with no channel called,
\* and one handled notification_cooldown or more later is sent.
C14_CooldownDropsOrSends ==
    [][ (inbox # << >> /\ inbox' = Tail(inbox) /\ Head(inbox).seats) =>
          IF everNotified /\ sinceNotif < notification_cooldown
          THEN notPc' # "sending" /\ sending' = NotSending
          ELSE notPc' = "sending" /\ sending'.result = Head(inbox) ]_vars

C14_Witness ==
    /\ notifications_sent = 1
    /\ everNotified
    /\ sinceNotif >= notification_cooldown
    /\ notPc = "sending"
    /\ sending.result.seats

\* C15: when send() returns and no enabled channel delivered the notification,
\* notifications_sent is not incremented, NOTIFY_COMPLETE is not emitted and
\* the time of the last notification is not updated (no cooldown starts).
C15_CountedOnlyWhenDelivered ==
    [][ (notPc = "sending" /\ notPc' # "sending" /\ ~sending.delivered) =>
          /\ notifications_sent' = notifications_sent
          /\ emitted'[NOTIFY_COMPLETE] = emitted[NOTIFY_COMPLETE]
          /\ everNotified' = everNotified
          /\ sinceNotif' = sinceNotif ]_vars

\* a is an initial part of b
IsPrefix(a, b) == Len(a) <= Len(b) /\ SubSeq(b, 1, Len(a)) = a

\* the step is a _dispatch: the head of the bus is taken off
DispatchStep == bus # << >> /\ ~IsPrefix(bus, bus')

\* C16: the dispatch of a SEAT_DETECTED carrying a CheckResult adds one to
\* metrics.seats_detected_count and puts that CheckResult once at the end of
\* the notifier inbox; the inbox changes in no other way than by this and by
\* the notifier taking its first item, so items are received in dispatch order.
C16_DetectionCountedAndQueuedOnce ==
    [][ /\ (DispatchStep /\ Head(bus).event = SEAT_DETECTED /\ Head(bus).payload.isResult) =>
              /\ metrics'.seats_detected_count = metrics.seats_detected_count + 1
              /\ inbox' = Append(inbox, CheckResult(Head(bus).payload.n,
                                                    Head(bus).payload.seats))
        /\ inbox' # inbox =>
              \/ DispatchStep /\ Head(bus).event = SEAT_DETECTED
              \/ /\ inbox # << >>
                 /\ inbox' = Tail(inbox)
                 /\ notPc' = "sending" => sending'.result = Head(inbox)
        /\ metrics'.seats_detected_count # metrics.seats_detected_count =>
              DispatchStep /\ Head(bus).event = SEAT_DETECTED ]_vars

C16_Witness ==
    /\ Len(inbox) = 2
    /\ inbox[1].id < inbox[2].id
    /\ notPc = "sending"
    /\ sending.result.id < inbox[1].id
    /\ metrics.seats_detected_count = 3

\* on the bus q every SEAT_DETECTED stands right behind the POLL_RESULT of its
\* poll unless that was taken off already, behind the POLL_RESULTs of earlier
\* polls and before those of later polls
BusOrdered(q) ==
    \A i \in 1..Len(q) :
        q[i].event = SEAT_DETECTED =>
            /\ i > 1 => q[i-1].event = POLL_RESULT /\ q[i-1].payload.n = q[i].payload.n
            /\ \A j \in 1..Len(q) :
                   q[j].event = POLL_RESULT => (j < i <=> q[j].payload.n <= q[i].payload.n)

\* C17: messages leave the bus for _dispatch only at its head, in the order
\* they were put; the SEAT_DETECTED of a poll comes to the head only after the
\* POLL_RESULT of that poll was dispatched, and stands before the POLL_RESULT
\* of every later poll.
C17_DispatchedInBusOrder ==
    [][ /\ IsPrefix(bus, bus') \/ (bus # << >> /\ IsPrefix(Tail(bus), bus'))
        /\ BusOrdered(bus')
        /\ (bus' # << >> /\ bus'[1].event = SEAT_DETECTED) =>
              /\ bus # << >>
              /\ \/ bus[1] = bus'[1]
                 \/ /\ bus[1].event = POLL_RESULT
                    /\ bus[1].payload.n = bus'[1].payload.n
                    /\ Tail(bus)[1] = bus'[1] ]_vars

C17_Witness ==
    /\ bus # << >>
    /\ bus[1].event = SEAT_DETECTED
    /\ bus[1].payload.n = 2
    /\ metrics.total_requests = 2
    /\ metrics.seats_detected_count = 1

\* C18: when run() has returned, metrics.total_requests is the number of
\* polls the monitor performed, successful_checks the number that succeeded
\* and failed_checks the number that failed.
C18_MetricsAccountForEveryPoll ==
    orchPc = "returned" =>
        /\ metrics.total_requests = request_count
        /\ metrics.successful_checks = succeeded
        /\ metrics.failed_checks = request_count - succeeded

\* C19: once the run() of an agent has raised, the event loop does not go on:
\* a step that would start its next wait for a bus message leaves the loop
\* instead, and run(query) goes to its shutdown and return.
C19_FailureEndsEventLoop ==
    [][ (failed # { } /\ orchPc = "get" /\ (DispatchStep \/ orchTimer' > orchTimer)) =>
            orchPc' # "get" ]_vars

\* the order of the lifecycle states along start()
LifecycleRank(l) ==
    IF l = "INIT" THEN 0 ELSE IF l = "READY" THEN 1 ELSE IF l = "ACTIVE" THEN 2
    ELSE IF l = "RECOVERING" THEN 3 ELSE IF l = "DRAINING" THEN 4 ELSE 5

C21_InvalidQueryNotRun ==
    ~ValidQuery(query) =>
        /\ monPc = "none" /\ notPc = "none" /\ hlPc = "none"
        /\ emitted[POLL_START] = 0

\* C22: the dispatch of a HEALTH_WARNING only takes the message off the bus:
\* the metrics counters, the peak memory and the notifier inbox stay as they
\* are, and unless the monitor task has ended (which ends the event loop by
\* itself) the orchestrator state and every stop flag stay as they are; a
\* RUNNING event loop then waits for the next message.
C22_WarningOnlyLogged ==
    [][ (DispatchStep /\ Head(bus).event = HEALTH_WARNING) =>
          /\ bus' = Tail(bus)
          /\ UNCHANGED << metrics, peakMem, inbox, emitted >>
          /\ monPc # "done" => UNCHANGED << orchState, monStop, notStop, hlStop >>
          /\ (monPc # "done" /\ orchState = "RUNNING") => orchPc' = "get" ]_vars

C22_Witness ==
    /\ orchState = "RUNNING"
    /\ orchPc = "get"
    /\ ~monStop
    /\ metrics.total_requests = 1
    /\ request_count = 2
    /\ bus = << >>
    /\ peakMem = 1

\* C23: send() never raises, and when it has returned for a result with
\* available trains, every entry of _methods that names a channel had its
\* channel invoked (in the order of _methods), whichever channels raised.
C23_EveryChannelAttempted ==
    /\ send.pc # "raised"
    /\ (send.pc = "returned" /\ send.available) =>
          LET enabled == SelectSeq(send.methods, IsChannel)
          IN  /\ Len(send.tasks) = Len(enabled)
              /\ \A i \in 1..Len(enabled) :
                    /\ send.tasks[i].method = enabled[i]
                    /\ send.tasks[i].state \in { "done", "raised" }

C23_Witness ==
    /\ send.pc = "returned"
    /\ Len(send.tasks) = 3
    /\ send.tasks[1].state = "raised"
    /\ send.tasks[2].state = "done"
    /\ send.tasks[3].state = "raised"

\* c <= min(c0 * 1.5^k, cap); the division is exact for the values the
\* scheduler holds (see Scale)
RECURSIVE WithinBackoff(_, _, _, _)
WithinBackoff(c, c0, cap, k) ==
    IF k = 0 THEN c <= c0 /\ c <= cap
    ELSE IF c0 >= cap THEN c <= cap
    ELSE WithinBackoff(c, (3 * c0) \div 2, cap, k - 1)

\* C24 as stated: after k >= 1 consecutive next_interval(True) calls, wherever
\* they occur, current_interval <= min(base_interval * 1.5^k, max_interval).
C24_BackoffBoundFromBase ==
    poller.errRun >= 1 => WithinBackoff(poller.current, poller.base, poller.max, poller.errRun)

\* C24 amended: after k >= 1 consecutive next_interval(True) calls,
\* current_interval <= min(c0 * 1.5^k, max_interval), c0 being
\* current_interval before the run; with c0 = base_interval (a new scheduler)
\* this is the bound min(base_interval * 1.5^k, max_interval).
C24_BackoffBoundFromRunStart ==
    poller.errRun >= 1 =>
        /\ WithinBackoff(poller.current, poller.runStart, poller.max, poller.errRun)
        /\ poller.calls = poller.errRun =>
              WithinBackoff(poller.current, poller.base, poller.max, poller.errRun)

C24_Witness ==
    /\ poller.errRun = 2
    /\ poller.calls = 5
    /\ poller.runStart > poller.base
    /\ poller.current < poller.max
    /\ poller.current * 4 = poller.runStart * 9

\* C25: a next_interval(False) call never raises current_interval and never
\* leaves it below base_interval.
C25_RecoveryNonIncreasing ==
    [][ (poller'.calls = poller.calls + 1 /\ poller'.errRun = 0) =>
          /\ poller'.current <= poller.current
          /\ poller'.current >= poller.base ]_vars

\* the acquire() calls that returned within the last T seconds
GrantsWithin(l, T) == Cardinality({ k \in 1..Len(l.grants) : l.grants[k] <= T })

\* C26: in every window of T seconds acquire() returns at most
\* burst + rate * T times (rate = 1 / period), whenever it is called.
C26_GrantsBoundedInEveryWindow ==
    \A T \in 0..Horizon :
        GrantsWithin(limiter, T) * limiter.period <= limiter.burst * limiter.period + T

C26_Witness ==
    /\ limiter.burst = 2
    /\ GrantsWithin(limiter, 4) = 4
    /\ GrantsWithin(limiter, 0) = 1

\* C27: with rate = 1 / max(base_interval, 10) and burst = 1, a poll starts
\* either as the first one or at least 10 seconds after the one before it,
\* whatever base_interval and the interval of the scheduler are.
C27_PollsTenSecondsApart ==
    [][ (monPc # "check" /\ monPc' = "check") =>
            (sincePoll = -1 \/ sincePoll >= RATE_FLOOR) ]_vars

C27_Witness ==
    /\ monPc = "check"
    /\ request_count = 1
    /\ sincePoll = 0
    /\ base_interval < RATE_FLOOR

\* the first run of decimal digits of a name, empty when it holds none
RECURSIVE FirstDigitRun(_, _)
FirstDigitRun(name, run) ==
    IF name = << >> THEN run
    ELSE IF isdigit(Head(name)) THEN FirstDigitRun(Tail(name), Append(run, Head(name)))
    ELSE IF run # << >> THEN run
    ELSE FirstDigitRun(Tail(name), run)

\* the seat-count derivation rule, in its order
SeatCountRule(code, name) ==
    IF code \notin { "11", "13" } THEN 0
    ELSE IF \E w \in { "maejin", "daegi", "magam", "eopseum" } : Contains(name, w) THEN 0
    ELSE IF \E w \in { "manheum", "chungbun", "ganeung" } : Contains(name, w) THEN 99
    ELSE IF FirstDigitRun(name, << >>) # << >> THEN int(FirstDigitRun(name, << >>))
    ELSE 1

\* C28: _seat_count_from_code(code, name) is what the rule gives for every
\* code and name: 0 for a code other than "11" and "13", else 0 for a name
\* saying sold out, waiting, closed or none, else 99 for a name saying plenty,
\* else the first run of digits of the name, else 1.
C28_SeatCountFollowsRule ==
    (call.fn = "_seat_count_from_code" /\ call.pc = "returned") =>
        call.result = SeatCountRule(call.args[1], call.args[2])

\* the trains of the pages within the time window, in page order, and the
\* bytes of the pages
RECURSIVE TrainsOfPages(_)
TrainsOfPages(pages) ==
    IF pages = << >> THEN << >>
    ELSE TrainsOfPages(SubSeq(pages, 1, Len(pages) - 1))
             \o SelectSeq(pages[Len(pages)].trn_info, InWindow)

RECURSIVE BytesOfPages(_)
BytesOfPages(pages) ==
    IF pages = << >> THEN 0
    ELSE BytesOfPages(SubSeq(pages, 1, Len(pages) - 1)) + pages[Len(pages)].size

\* the requests check() has made
PageRequests == Len(checker.pages) + IF checker.pc = "get" THEN 1 ELSE 0

\* C29: check() makes at most 5 requests in a poll and ends; a page after
\* the first is requested only when the page before it had
\* h_next_pg_flg = "Y"; the result holds the trains of all the pages in
\* page order and raw_response_size is the sum of their sizes.
C29_PagesBoundedAndMerged ==
    /\ [](/\ PageRequests <= MAX_PAGES
          /\ \A k \in 1..(PageRequests - 1) : checker.pages[k].h_next_pg_flg = "Y"
          /\ checker.pc = "returned" =>
                /\ checker.all_trains = TrainsOfPages(checker.pages)
                /\ checker.total_size = BytesOfPages(checker.pages))
    /\ <>(checker.pc \in { "returned", "raised" })

C29_Witness ==
    /\ checker.pc = "returned"
    /\ Len(checker.pages) = MAX_PAGES
    /\ checker.pages[MAX_PAGES].h_next_pg_flg = "Y"
    /\ Len(checker.all_trains) = MAX_PAGES
    /\ checker.total_size = MAX_PAGES + 1

MinuteOfDay(t) == t.hour * 60 + t.minute

\* C30: _calc_duration(dep, arr) is arr - dep in minutes when arr is later
\* than dep and that difference plus 1440 otherwise, hence within 1..1440;
\* 23:00 to 01:00 is 120, 08:00 to 10:30 is 150, 08:00 to 08:00 is 1440.
C30_DurationWithinOneDay ==
    (call.fn = "_calc_duration" /\ call.pc = "returned") =>
        LET dep == call.args[1]
            arr == call.args[2]
            diff == MinuteOfDay(arr) - MinuteOfDay(dep)
        IN  /\ MinuteOfDay(arr) > MinuteOfDay(dep) => call.result = diff
            /\ MinuteOfDay(arr) <= MinuteOfDay(dep) => call.result = diff + 1440
            /\ call.result \in 1..1440
            /\ (dep = Time(23, 0) /\ arr = Time(1, 0)) => call.result = 120
            /\ (dep = Time(8, 0) /\ arr = Time(10, 30)) => call.result = 150
            /\ (dep = Time(8, 0) /\ arr = Time(8, 0)) => call.result = 1440

C30_Witness ==
    /\ call.fn = "_calc_duration"
    /\ call.pc = "returned"
    /\ call.args = << Time(23, 0), Time(1, 0) >>
    /\ call.result = 120

\* C31 as stated: an alias gives a key of the station-code table, a key of
\* the table is returned unchanged and the result is a fixed point, and a
\* name that is neither an alias nor a key raises ValueError.
C31_UnknownNameRejected ==
    (call.fn = "validate_station" /\ call.pc = "returned") =>
        LET name == call.args[1]
        IN  /\ name \in AliasKeys => call.result \in STATION_CODES
            /\ name \in STATION_CODES => call.result = name
            /\ call.result # << >> => validate_station(call.result) = call.result
            /\ name \notin (AliasKeys \cup STATION_CODES) => call.result = << >>

\* C31: an alias gives a key of the station-code table, a key of the table is
\* returned unchanged and the result is a fixed point, and a name that with
\* the white space around it and the spaces in it removed is neither an alias
\* nor a key raises ValueError.
C31_UnknownNameRejectedAfterStrip ==
    (call.fn = "validate_station" /\ call.pc = "returned") =>
        LET name == call.args[1]
        IN  /\ name \in AliasKeys => call.result \in STATION_CODES
            /\ name \in STATION_CODES => call.result = name
            /\ call.result # << >> => validate_station(call.result) = call.result
            /\ Normalized(name) \notin (AliasKeys \cup STATION_CODES) <=> call.result = << >>

C31_Witness ==
    /\ call.fn = "validate_station"
    /\ call.pc = "returned"
    /\ call.args[1] = << "Ulsan", "yeok" >>
    /\ call.result = << "Ulsan", "(", "Tongdosa", ")" >>

\* check() returns or raises in this step
CheckEnds == monPc = "check" /\ monPc' = "wait"

CheckBegins == monPc # "check" /\ monPc' = "check"

\* C33: a poll puts one POLL_START on the bus as it calls check(), numbered
\* request_count + 1, which is one more than the number of the POLL_START
\* before it (1 for the first); no other step emits a POLL_START; the
\* POLL_RESULT of a poll carries the number of its POLL_START.
C33_PollsNumberedInSequence ==
    [][ /\ CheckBegins =>
              /\ emitted'[POLL_START] = emitted[POLL_START] + 1
              /\ bus' = Append(bus, bus'[Len(bus')])
              /\ bus'[Len(bus')].event = POLL_START
              /\ bus'[Len(bus')].payload.n = request_count + 1
              /\ bus'[Len(bus')].payload.n = emitted[POLL_START] + 1
        /\ ~CheckBegins => emitted'[POLL_START] = emitted[POLL_START]
        /\ emitted'[POLL_RESULT] = emitted[POLL_RESULT] + 1 =>
              /\ CheckEnds
              /\ bus'[Len(bus) + 1].event = POLL_RESULT
              /\ bus'[Len(bus) + 1].payload.n = emitted[POLL_START] ]_vars

\* the third poll begins after one that raised and one that returned
C33_Witness ==
    /\ monPc = "check"
    /\ request_count = 2
    /\ succeeded = 1
    /\ emitted[POLL_START] = 3
    /\ emitted[POLL_RESULT] = 1

\* the health agent puts a HEALTH_CRITICAL on the bus in this step
HealthEmitsCritical ==
    /\ Len(bus') > Len(bus)
    /\ bus'[Len(bus')].source = "health_agent"
    /\ bus'[Len(bus')].event = HEALTH_CRITICAL

\* C34: the health agent emits HEALTH_CRITICAL only on a tick of its timer
\* with its stop flag unset: {session_timeout} when the session has lasted
\* longer than max_session_duration, else {memory_limit} when the peak memory
\* is above the limit; with the stop flag set it emits none.
C34_HealthCriticalOnlyWhileRunning ==
    [][ HealthEmitsCritical =>
            /\ ~hlStop
            /\ hlPc = "wait"
            /\ Expired(hlTimer)
            /\ bus'[Len(bus')].payload.reason =
                   IF elapsed > max_session_duration THEN "session_timeout" ELSE "memory_limit"
            /\ elapsed <= max_session_duration => peakMem' > 1 ]_vars

\* C35: a step that takes a result with no available train from the inbox
\* calls no channel (send() is not entered), leaves notifications_sent and
\* the time of the last notification as they are and puts nothing on the bus.
C35_NoSeatsNothingSent ==
    [][ (notPc = "get" /\ inbox # << >> /\ inbox' = Tail(inbox) /\ ~Head(inbox).seats) =>
            /\ notPc' # "sending"
            /\ UNCHANGED << sending, notifications_sent, everNotified, sinceNotif, bus, emitted >>
      ]_vars

\* a result without seats was dropped when no cooldown was running, after a
\* notification had been sent
C35_Witness ==
    /\ unseated
    /\ notifications_sent = 1
    /\ sinceNotif >= notification_cooldown
    /\ emitted[NOTIFY_COMPLETE] = 1
    /\ notPc = "get"

\* the states the table leads to from those of `states`, these included
RECURSIVE ReachableFrom(_)
ReachableFrom(states) ==
    LET next == states \cup UNION { _VALID_TRANSITIONS[st] : st \in states }
    IN  IF next = states THEN states ELSE ReachableFrom(next)

\* C36: in the transition table every state is reachable from IDLE, STOPPED
\* is reachable from every other state and has no transition out of it;
\* every value a step of KorailAgent gives to its state follows the value
\* before it by a transition of the table, and a STOPPED agent stays STOPPED.
C36_StateFollowsTable ==
    /\ [](/\ ReachableFrom({ "IDLE" }) = AgentState
          /\ \A st \in AgentState : "STOPPED" \in ReachableFrom({ st })
          /\ _VALID_TRANSITIONS["STOPPED"] = { }
          /\ \A i \in 1..(Len(korail.assigned) - 1) :
                validate_transition(korail.assigned[i], korail.assigned[i + 1])
          /\ korail.assigned # << >> => korail.state = korail.assigned[Len(korail.assigned)])
    /\ [][ /\ korail'.assigned # << >> => korail'.assigned[1] = korail.state
           /\ korail.state = "STOPPED" => korail'.state = "STOPPED" ]_vars

\* start() is called again on a stopped agent and polls: the state stays STOPPED
C36_Witness ==
    /\ korail.state = "STOPPED"
    /\ korail.pc = "check"
    /\ korail.running

\* C37: when run() has returned no message is left on the bus, and every
\* SEAT_DETECTED the monitor emitted has been dispatched: the detections
\* counted by the orchestrator are those the monitor made.
C37_DetectionsAllDispatched ==
    orchPc = "returned" =>
        /\ bus = << >>
        /\ metrics.seats_detected_count = detected


\* C38: at every point of a session the counters are ordered:
\* notifications_sent <= seats_detected_count <= successful_checks
\* <= request_count <= max_requests_per_session.
C38_CountersOrdered ==
    /\ metrics.notifications_sent <= metrics.seats_detected_count
    /\ metrics.seats_detected_count <= metrics.successful_checks
    /\ metrics.successful_checks <= request_count
    /\ request_count <= max_requests_per_session

\* a notification was counted and the request limit was reached
C38_Witness ==
    /\ metrics.notifications_sent >= 1
    /\ metrics.seats_detected_count >= 2
    /\ request_count = max_requests_per_session


\* ------------------------------- _shutdown and the start() of the three tasks
shutRest ==
    << timed, unitVars, bus, metrics, peakMem, monCancel, notCancel, monVars, notVars, inbox,
       hlVars, clocks, emitted, history >>

\* the stop event of agent a
StopEvent(a) ==
    IF a = "monitor_agent" THEN monStop
    ELSE IF a = "notifier_agent" THEN notStop
    ELSE hlStop

\* teardown() of agent a awaits: the monitor awaits SeatCheckerSkill.close(),
\* the notifier and the health agent only log
TeardownAwaits(a) == a = "monitor_agent"

\* the task of agent a is suspended in an await that only another task or the
\* passing of time ends
TaskSuspended(a) ==
    \/ startPc[a] = "run"
    \/ startPc[a] = "teardown" /\ TeardownAwaits(a)

TasksDone == \A a \in Agents : startPc[a] = "ended"

\* run() up to the first wait of the event loop: the three tasks are created
ShutRun ==
    /\ orchPc = "idle"
    /\ orchState' = "RUNNING"
    /\ orchPc' = "get"
    /\ UNCHANGED << shutRest, orchTimer, monStop, notStop, hlStop, startVars >>

\* the event loop ends (stop() was called, or the monitor task is done):
\* _shutdown sets STOPPING, calls request_stop() on the three agents and
\* awaits wait_for(gather(*tasks), 10.0)
ShutBegin ==
    /\ orchPc = "get"
    /\ orchState' = "STOPPING"
    /\ orchPc' = "shutdown"
    /\ orchTimer' = SetTimer(GRACEFUL_SHUTDOWN_TIMEOUT)
    /\ monStop' = TRUE
    /\ notStop' = TRUE
    /\ hlStop' = TRUE
    /\ UNCHANGED << shutRest, startVars >>

\* the run() of agent a ends: it returns (the monitor also on a session
\* limit, the others once their stop event is set) or raises an Exception
TaskRunEnds(a) ==
    /\ orchPc # "idle"
    /\ startPc[a] = "run"
    /\ \E outcome \in { "return", "raise" } :
        /\ outcome = "return" => a = "monitor_agent" \/ StopEvent(a)
        /\ SetLifecycle(a, AwaitEnded(outcome),
                        IF outcome = "raise" THEN "except" ELSE "teardown")
        /\ failed' = IF outcome = "raise" THEN failed \cup { a } ELSE failed
    /\ UNCHANGED startRest

\* a step of start() of agent a that needs no other task
TaskStep(a) ==
    /\ orchPc # "idle"
    /\ \/ StartBegin(a)
       \/ StartSetupDone(a)
       \/ StartRun(a)
       \/ StartFinally(a)
       \/ StartTeardownDone(a)

\* the lifecycle of agent a once CancelledError was raised where its task is
\* suspended: from run() the finally block sets DRAINING and awaits
\* teardown(); from teardown() the error leaves the finally block
LifecycleWhenCancelled(a) ==
    IF startPc[a] = "run" THEN AwaitEnded("cancel") ELSE lifecycle[a]

\* where start() of agent a is once CancelledError was raised
PcWhenCancelled(a) ==
    IF startPc[a] = "run" THEN "teardown"
    ELSE IF startPc[a] = "teardown" THEN "ended"
    ELSE startPc[a]

\* _shutdown: gather() completed within the timeout; run() sets STOPPED
ShutDone ==
    /\ orchPc = "shutdown"
    /\ TasksDone
    /\ orchState' = "STOPPED"
    /\ orchPc' = "returned"
    /\ orchTimer' = 0
    /\ UNCHANGED << shutRest, monStop, notStop, hlStop, startVars >>

\* _shutdown: the 10 s pass with every unfinished task suspended: wait_for
\* cancels the gather and with it every task not done, and the tasks are
\* gathered again
ShutTimeout ==
    /\ orchPc = "shutdown"
    /\ ~TasksDone
    /\ \A a \in Agents : startPc[a] = "ended" \/ TaskSuspended(a)
    /\ orchPc' = "force"
    /\ orchTimer' = 0
    /\ lifecycle' = [ a \in Agents |-> LifecycleWhenCancelled(a) ]
    /\ startPc' = [ a \in Agents |-> PcWhenCancelled(a) ]
    /\ UNCHANGED << shutRest, orchState, monStop, notStop, hlStop, failed >>

\* _shutdown: the cancelled tasks have ended; run() sets STOPPED and returns
ShutForceDone ==
    /\ orchPc = "force"
    /\ TasksDone
    /\ orchState' = "STOPPED"
    /\ orchPc' = "returned"
    /\ UNCHANGED << shutRest, orchTimer, monStop, notStop, hlStop, startVars >>

ShutdownNext ==
    \/ ShutRun
    \/ ShutBegin
    \/ \E a \in Agents : TaskStep(a)
    \/ \E a \in Agents : TaskRunEnds(a)
    \/ ShutDone
    \/ ShutTimeout
    \/ ShutForceDone

\* run() of the orchestrator with the three tasks followed through start()
ShutdownSpec == Init /\ [][ShutdownNext]_vars

\* C39: when run() has returned, every agent task has executed its teardown
\* and its lifecycle is OFF, also when the task was cancelled after the
\* shutdown timeout.
C39_TasksTornDownAtReturn ==
    orchPc = "returned" => \A a \in Agents : lifecycle[a] = "OFF"


\* C40: whenever base_interval <= max_interval, after any sequence of
\* next_interval calls base_interval <= current_interval <= max_interval, and
\* the wait returned lies in [current_interval, current_interval + jitter_range].
C40_IntervalAndWaitBounded ==
    (poller # NoPoller /\ poller.base <= poller.max) =>
        /\ poller.base <= poller.current
        /\ poller.current <= poller.max
        /\ poller.calls > 0 =>
               /\ poller.current <= poller.returned
               /\ poller.returned <= poller.current + poller.jitter

\* after MaxCalls calls, the last one without an error, the interval is at
\* the base and the wait returned has the whole jitter added
C40_Witness ==
    /\ poller # NoPoller
    /\ poller.base < poller.max
    /\ poller.calls = MaxCalls
    /\ poller.errRun = 0
    /\ poller.current = poller.base
    /\ poller.jitter > 0
    /\ poller.returned = poller.current + poller.jitter

====
